---- MODULE Spec2Model ----
(***************************************************************************)
(* Tile processor (WorkerTile), bucket tessellation (Bucket, CircleBucket) *)
(* and label placement recomputation of mapbox-gl-js, as a state machine.  *)
(*                                                                         *)
(* Spec       : one WorkerTile: parse, the two dependency responses and    *)
(*              redoPlacement, in every interleaving.                      *)
(* SpecCircle : one CircleBucket inside populateBuffers, one addFeature    *)
(*              per step, long enough to fill an element group.            *)
(* SpecTree   : one FeatureTree: insert, serialize and query in any order. *)
(* SpecGeo    : the narrow-phase geometry tests of the line kind, applied  *)
(*              to points, polygons and lines of a small lattice.          *)
(* SpecLayers : the first half of parse as a function: style layers and    *)
(*              raw data to buckets holding their features.                *)
(* SpecVertex : addFeature of one point at every position of the tile.     *)
(* SpecReparse: Spec with parse called again on the tile at any time.      *)
(* SpecMarkers: the binary-search sorting of a 'markers' layer.            *)
(* SpecQuery  : one query of a FeatureTree the buckets have filled.        *)
(* SpecFused  : the loop of filterMatching over fused style layers.        *)
(* SpecTranslate, SpecSegments: translate and the segment test as          *)
(*              functions of their arguments.                              *)
(***************************************************************************)
EXTENDS Integers, Sequences, FiniteSets, TLC

VARIABLES
    zoom,                    \* tile.zoom
    status,                  \* tile.status: "unparsed" (undefined) | "parsing" | "done"
    angle,                   \* tile.angle
    pitch,                   \* tile.pitch
    redoPlacementAfterDone,  \* tile.redoPlacementAfterDone (undefined = FALSE)
    symbolBuckets,           \* tile.symbolBuckets: [p |-> parse, ids |-> bucket ids]
    parses,                  \* the closures of the parse calls made so far
    last,                    \* history: what the last operation did and returned
    redos,                   \* history: the last two placement passes redoPlacement ran
    statusLog,               \* history: the values assigned to tile.status, in order
    deferredAngle,           \* history: {} or {angle of the last deferred redoPlacement}
    cb,                      \* SpecCircle: the circle bucket being populated
    fed,                     \* SpecCircle: in-range points handed to addFeature
    tree,                    \* SpecTree: the FeatureTree
    inserted,                \* SpecTree: history, the features handed to insert
    lastTree,                \* SpecTree: history, the last call and what it returned
    geo,                     \* SpecGeo: the last geometry test and its answer
    job,                     \* SpecLayers: the arguments of parse; SpecMarkers: those of
                             \* sortLayerIntoBucketsBinarySearch
    sorted                   \* SpecLayers: <<>> or <<the buckets parse built>>;
                             \* SpecMarkers: <<>> or <<the features the bucket got>>

vars == <<zoom, status, angle, pitch, redoPlacementAfterDone, symbolBuckets,
          parses, last, redos, statusLog, deferredAngle, cb, fed,
          tree, inserted, lastTree, geo, job, sorted>>

tileVars == <<zoom, status, angle, pitch, redoPlacementAfterDone, symbolBuckets,
              parses, last, redos, statusLog, deferredAngle>>

circleVars == <<cb, fed>>

treeVars == <<tree, inserted, lastTree>>

layerVars == <<job, sorted>>

\* the variables of the specifications other than Spec and SpecCircle
sideVars == <<tree, inserted, lastTree, geo, job, sorted>>

----------------------------------------------------------------------------
(* Bounds of the model                                                     *)

\* longest feature list of a tile handed to parse
MaxFeatures == 2

\* SpecCircle stops feeding features once this many vertices lie beyond the
\* first full element group
MaxOverflow == 12

\* SpecMarkers: the 'markers' layer holds at most this many features
MaxMarkers == 3

----------------------------------------------------------------------------
(* Program constants                                                       *)

\* Bucket.EXTENT
EXTENT == 8192

\* the largest vertexLength of an element group (makeRoomFor)
MaxGroupVertices == 65535

\* the number of dependency completions gotDependency waits for
NumDeps == 2

\* vertices makeRoomFor is asked for per circle
QuadVertices == 4

\* triangles written per circle
QuadTriangles == 2

\* the number of values of a 16 bit attribute
Uint16Size == 65536

----------------------------------------------------------------------------
(* Inputs: features, raw tile data, style layers, camera                   *)

Angles == {0, 1}
Pitches == {0, 1}
Zooms == {1}
TileSource == "composite"
NoRef == ""        \* layer.ref undefined
NoZoom == {}       \* layer.minzoom / layer.maxzoom undefined; {n} is the number n
MatchAll == {1, 2} \* a filter every feature passes; else the accepted values of c

\* A feature: property c (what the layers filter on), whether it names an
\* icon, and its points.
FeatureA == [c |-> 1, icon |-> FALSE, pts |-> << <<0, 0>>, <<1, 1>> >>]
FeatureB == [c |-> 1, icon |-> TRUE,  pts |-> << <<EXTENT, 0>>, <<EXTENT - 1, 1>> >>]
FeatureC == [c |-> 1, icon |-> FALSE, pts |-> << <<-1, 0>> >>]
FeatureD == [c |-> 2, icon |-> FALSE, pts |-> << <<0, 1>> >>]
Features == {FeatureA, FeatureB, FeatureC, FeatureD}

RECURSIVE SeqsUpTo(_, _)
SeqsUpTo(S, n) ==
    IF n = 0 THEN {<<>>}
    ELSE LET shorter == SeqsUpTo(S, n - 1)
         IN shorter \cup {Append(s, x) : s \in {t \in shorter : Len(t) = n - 1}, x \in S}

FeatureLists == SeqsUpTo(Features, MaxFeatures)

\* Raw tile data: a vector tile with the one source layer "a" (data.layers
\* set), or a GeoJSON collection (data.layers undefined).
TileData == [vt : BOOLEAN, feats : FeatureLists]

Layer(id, type, source, sl, filter, visible) ==
    [id |-> id, type |-> type, source |-> source, ref |-> NoRef,
     minzoom |-> NoZoom, maxzoom |-> NoZoom,
     visibility |-> IF visible THEN "visible" ELSE "none",
     sl |-> sl, filter |-> filter]

\* The style: a circle layer, two symbol layers sharing the tile, and a
\* layer of another source.  vis[i] is the layout visibility of layer i.
StyleLayers(vis) ==
    << Layer("circles", "circle", TileSource, "a", {1}, vis[1]),
       Layer("labels", "symbol", TileSource, "a", MatchAll, vis[2]),
       Layer("pois", "symbol", TileSource, "b", {2}, vis[3]),
       Layer("far", "circle", "other", "a", MatchAll, TRUE) >>

Styles == {StyleLayers(vis) : vis \in [1..3 -> BOOLEAN]}

----------------------------------------------------------------------------
(* Bucket: element groups and the circle tessellator                       *)

\* Bucket(options) followed by createFilter: no features, no buffers yet.
NewBucket(layer) ==
    [id |-> layer.id, type |-> layer.type, sl |-> layer.sl, filter |-> layer.filter,
     layers |-> <<layer.id>>, \* ids of the layers fused onto the bucket
     features |-> <<>>,      \* bucket.features ([] at first, <<>> again once null)
     matched |-> <<>>,       \* history: the features sorted into the bucket
     populated |-> FALSE,    \* history: populateBuffers has run
     hasBuffers |-> FALSE,   \* bucket.buffers is defined
     vertexLen |-> 0,        \* length of the vertex buffer
     elementLen |-> 0,       \* length of the element buffer
     groups |-> <<>>,        \* elementGroups of the bucket's one shader
     quad |-> <<>>,          \* circle, history: <<what the last point wrote>>, if any
     instances |-> <<>>,     \* symbol: anchors kept for placement
     labels |-> <<>>]        \* symbol: anchors whose quads are in the buffers

\* createBuffers: fresh empty buffers and no element group.
CreateBuffers(b) ==
    [b EXCEPT !.hasBuffers = TRUE, !.vertexLen = 0, !.elementLen = 0,
              !.groups = <<>>, !.labels = <<>>, !.quad = <<>>]

NeedsNewGroupLate(groups, numVertices) ==
    \/ Len(groups) = 0
    \/ groups[Len(groups)].vertexLength + numVertices > MaxGroupVertices + QuadVertices

\* makeRoomFor's test: no current group, or the current one would overflow.
NeedsNewGroup(groups, numVertices) ==
    \/ Len(groups) = 0
    \/ groups[Len(groups)].vertexLength + numVertices > MaxGroupVertices

\* makeRoomFor: the bucket with a new group appended when one is needed; the
\* group handed back is always the last one.  The vertex buffer makeRoomFor
\* measures and the array addFeature appends to are the same buffer.
MakeRoomFor(b, numVertices) ==
    IF NeedsNewGroup(b.groups, numVertices)
    THEN [b EXCEPT !.groups = Append(@, [vertexStartIndex |-> b.vertexLen,
                                          elementStartIndex |-> b.elementLen,
                                          vertexLength |-> 0,
                                          elementLength |-> 0])]
    ELSE b

InTileClosed(x, y) == ~(x < 0 \/ x > EXTENT \/ y < 0 \/ y > EXTENT)

\* the test of addFeature, negated: the point is kept
InTile(x, y) == ~(x < 0 \/ x >= EXTENT \/ y < 0 \/ y >= EXTENT)

\* what an Int16 attribute of a vertex holds once n is stored in it
Int16(n) == ((n + Uint16Size \div 2) % Uint16Size) - Uint16Size \div 2

\* what a Uint16 element index holds once n is stored in it
Uint16(n) == n % Uint16Size

AddCircleVertexBare(x, y, extrudeX, extrudeY) == <<Int16(x * 2), Int16(y * 2)>>

\* addCircleVertex(x, y, extrudeX, extrudeY): the a_pos the vertex gets;
\* extrudeX and extrudeY are -1 or 1, so that the halves are whole
AddCircleVertex(x, y, extrudeX, extrudeY) ==
    <<Int16((x * 2) + ((extrudeX + 1) \div 2)), Int16((y * 2) + ((extrudeY + 1) \div 2))>>

QuadIndexAbsolute(b, group) == b.vertexLen

\* addCircleVertex(x, y, -1, -1) - group.vertexStartIndex: emplaceBack
\* hands back the index of the vertex it appends
QuadIndex(b, group) == b.vertexLen - group.vertexStartIndex

\* the four vertices and the two triangles addFeature writes for the point
\* pt into the group makeRoomFor handed back (the last one of b)
CircleQuad(b, pt) ==
    LET g == Len(b.groups)
        index == QuadIndex(b, b.groups[g])
    IN [point |-> pt, group |-> g, vertexAt |-> b.vertexLen,
        vertices |-> << AddCircleVertex(pt[1], pt[2], -1, -1),
                        AddCircleVertex(pt[1], pt[2], 1, -1),
                        AddCircleVertex(pt[1], pt[2], 1, 1),
                        AddCircleVertex(pt[1], pt[2], -1, 1) >>,
        indices |-> << <<index, index + 1, index + 2>>, <<index, index + 3, index + 2>> >>,
        elements |-> << <<Uint16(index), Uint16(index + 1), Uint16(index + 2)>>,
                        <<Uint16(index), Uint16(index + 3), Uint16(index + 2)>> >>]

\* the body of addFeature's loop for one point
AddCirclePoint(b, pt) ==
    IF ~InTile(pt[1], pt[2]) THEN b
    ELSE LET r == MakeRoomFor(b, QuadVertices)
             g == Len(r.groups)
         IN [r EXCEPT !.quad = <<CircleQuad(r, pt)>>,
                      !.vertexLen = @ + QuadVertices,
                      !.groups[g].vertexLength = @ + QuadVertices,
                      !.elementLen = @ + QuadTriangles,
                      !.groups[g].elementLength = @ + QuadTriangles]

RECURSIVE AddCirclePoints(_, _, _)
AddCirclePoints(b, pts, k) ==
    IF k > Len(pts) THEN b
    ELSE AddCirclePoints(AddCirclePoint(b, pts[k]), pts, k + 1)

\* CircleBucket.prototype.addFeature (point features: one geometry)
CircleAddFeature(b, feature) == AddCirclePoints(b, feature.pts, 1)

RECURSIVE AddFeatures(_, _, _)
AddFeatures(b, features, i) ==
    IF i > Len(features) THEN b
    ELSE AddFeatures(CircleAddFeature(b, features[i]), features, i + 1)

\* Bucket.prototype.populateBuffers for a circle bucket (trimBuffers keeps
\* the lengths)
CirclePopulateBuffers(b) ==
    [AddFeatures(CreateBuffers(b), b.features, 1) EXCEPT !.populated = TRUE]

\* For the properties: the number of points of a feature that lie inside
\* [0, EXTENT) x [0, EXTENT), counted without the tessellator.
InRangeCount(feature) ==
    Cardinality({k \in 1..Len(feature.pts) :
                   /\ 0 <= feature.pts[k][1] /\ feature.pts[k][1] < EXTENT
                   /\ 0 <= feature.pts[k][2] /\ feature.pts[k][2] < EXTENT})

RECURSIVE InRangeTotal(_)
InRangeTotal(features) ==
    IF features = <<>> THEN 0
    ELSE InRangeCount(Head(features)) + InRangeTotal(Tail(features))

----------------------------------------------------------------------------
(* Symbol buckets and the collision structure.  SymbolBucket and           *)
(* CollisionTile are not part of the sources at hand: a label is accepted  *)
(* unless its box overlaps one accepted earlier into the same structure.   *)

\* new CollisionTile(angle, pitch)
NewCollisionTile(a, pt) == [angle |-> a, pitch |-> pt, placed |-> {}]

Abs(n) == IF n < 0 THEN -n ELSE n

\* where the camera angle puts an anchor on the screen axis labels compete on
Project(a, anchor) == IF a = 0 THEN anchor[1] ELSE anchor[2]

\* the box of anchor overlaps an accepted box; a pitched camera widens boxes
Collides(ct, anchor) ==
    \E q \in ct.placed :
        Abs(Project(ct.angle, q) - Project(ct.angle, anchor)) <= ct.pitch

RECURSIVE PlaceInstances(_, _, _)
PlaceInstances(b, ct, i) ==
    IF i > Len(b.instances) THEN [b |-> b, ct |-> ct]
    ELSE LET anchor == b.instances[i]
         IN IF Collides(ct, anchor) THEN PlaceInstances(b, ct, i + 1)
            ELSE LET r == MakeRoomFor(b, QuadVertices)
                     g == Len(r.groups)
                     q == [r EXCEPT !.vertexLen = @ + QuadVertices,
                                    !.groups[g].vertexLength = @ + QuadVertices,
                                    !.elementLen = @ + QuadTriangles,
                                    !.groups[g].elementLength = @ + QuadTriangles,
                                    !.labels = Append(@, anchor)]
                 IN PlaceInstances(q, [ct EXCEPT !.placed = @ \cup {anchor}], i + 1)

\* SymbolBucket.prototype.placeFeatures(collisionTile, showCollisionBoxes):
\* fresh buffers, then every kept anchor is tried against the structure.
\* (What showCollisionBoxes adds for debugging is left out.)
PlaceFeatures(b, ct) == PlaceInstances(CreateBuffers(b), ct, 1)

\* SymbolBucket.prototype.populateBuffers(collisionTile, stacks, icons):
\* anchors are derived from the features, then placed.
SymbolPopulateBuffers(b, ct) ==
    LET withAnchors == [b EXCEPT !.instances = [i \in 1..Len(b.features) |-> b.features[i].pts[1]],
                                 !.populated = TRUE]
    IN PlaceFeatures(withAnchors, ct)

\* SymbolBucket.prototype.updateIcons over the symbol buckets: icons is
\* non-empty when a symbol feature names an icon.
IconsNeeded(bk, ids) ==
    \E i \in 1..Len(ids) : \E k \in 1..Len(bk[ids[i]].features) : bk[ids[i]].features[k].icon

----------------------------------------------------------------------------
(* WorkerTile.prototype.parse: layers to buckets, features to buckets      *)

NoErr == "null"
Errors == {"glyphs failed", "icons failed"}

Truthy(z) == z # {} /\ z # {0}
Num(z) == CHOOSE n \in z : TRUE

\* the five `continue` tests of the first loop over the layers
KeepLayer(layer, src, z) ==
    /\ ~(layer.source # src)
    /\ ~(layer.ref # NoRef)
    /\ ~(Truthy(layer.minzoom) /\ z < Num(layer.minzoom))
    /\ ~(Truthy(layer.maxzoom) /\ z >= Num(layer.maxzoom))
    /\ ~(layer.visibility = "none")

\* ids of the layers that get a bucket, in the order bucketsById gets them
BucketIds(layers, src, z) ==
    LET kept == SelectSeq(layers, LAMBDA l : KeepLayer(l, src, z))
    IN [i \in 1..Len(kept) |-> kept[i].id]

LayerById(layers, id) == layers[CHOOSE i \in 1..Len(layers) : layers[i].id = id]

\* bucketsById after the first loop
CreateBuckets(layers, src, z) ==
    LET ids == BucketIds(layers, src, z)
    IN [id \in {ids[i] : i \in 1..Len(ids)} |-> NewBucket(LayerById(layers, id))]

IndexRefLayersNone(bk, layers, src, i) == bk

RECURSIVE IndexRefLayers(_, _, _, _)
\* the second loop: a ref layer joins the bucket of its target, if any
IndexRefLayers(bk, layers, src, i) ==
    IF i > Len(layers) THEN bk
    ELSE LET layer == layers[i]
         IN IF layer.source = src /\ layer.ref # NoRef /\ layer.ref \in DOMAIN bk
            THEN IndexRefLayers([bk EXCEPT ![layer.ref].layers = Append(@, layer.id)],
                                layers, src, i + 1)
            ELSE IndexRefLayers(bk, layers, src, i + 1)

FilterAny(b, feature) == TRUE

\* bucket.filter(feature)
Filter(b, feature) == feature.c \in b.filter

RECURSIVE PushFeature(_, _, _, _)
\* the inner loop of sortLayerIntoBuckets: one feature against each bucket
PushFeature(bk, ids, feature, k) ==
    IF k > Len(ids) THEN bk
    ELSE IF Filter(bk[ids[k]], feature)
         THEN PushFeature([bk EXCEPT ![ids[k]].features = Append(@, feature),
                                     ![ids[k]].matched = Append(@, feature)],
                          ids, feature, k + 1)
         ELSE PushFeature(bk, ids, feature, k + 1)

RECURSIVE SortLayerIntoBuckets(_, _, _, _)
\* sortLayerIntoBuckets(layer, buckets), the general path; ids are the
\* buckets handed in, in iteration order
SortLayerIntoBuckets(bk, ids, feats, i) ==
    IF i > Len(feats) THEN bk
    ELSE SortLayerIntoBuckets(PushFeature(bk, ids, feats[i], 1), ids, feats, i + 1)

\* "read each layer, and sort its features into buckets": a vector tile
\* hands each source layer to the buckets of that source layer only (the
\* tile holds the one source layer "a"), GeoJSON hands all to all.
SortData(bk, ids, data) ==
    IF data.vt
    THEN SortLayerIntoBuckets(bk, SelectSeq(ids, LAMBDA id : bk[id].sl = "a"), data.feats, 1)
    ELSE SortLayerIntoBuckets(bk, ids, data.feats, 1)

\* buckets / symbolBuckets / otherBuckets of the third loop
NonEmptyIds(bk, ids) == SelectSeq(ids, LAMBDA id : Len(bk[id].features) # 0)
SymbolIds(bk, ids) == SelectSeq(NonEmptyIds(bk, ids), LAMBDA id : bk[id].type = "symbol")
OtherIds(bk, ids) == SelectSeq(NonEmptyIds(bk, ids), LAMBDA id : bk[id].type # "symbol")

IsBucketEmptyAlways(b) == TRUE

\* isBucketEmpty: despite its name, TRUE when some buffer holds something
IsBucketEmpty(b) == b.hasBuffers /\ (b.vertexLen > 0 \/ b.elementLen > 0)

\* Bucket.prototype.serialize: what the buffers and element groups hold
SerializeBucket(b) ==
    [id |-> b.id, vertexLen |-> b.vertexLen, elementLen |-> b.elementLen,
     elementGroups |-> b.groups, labels |-> b.labels]

\* buckets.filter(isBucketEmpty).map(serializeBucket)
SerializeBuckets(bk, ids) ==
    LET kept == SelectSeq(ids, LAMBDA id : IsBucketEmpty(bk[id]))
    IN [i \in 1..Len(kept) |-> SerializeBucket(bk[kept[i]])]

\* the buffers createBuffers gives a bucket of one shader
BufferNames == <<"vertex", "element">>

\* getTransferables(buckets): the array buffer of every buffer of every
\* bucket in turn, named <<bucket, buffer>>; a bucket whose buffers object
\* is undefined adds none
GetTransferables(bk, ids) ==
    LET with == SelectSeq(ids, LAMBDA id : bk[id].hasBuffers)
    IN [k \in 1..(Len(with) * Len(BufferNames)) |->
           <<with[((k - 1) \div Len(BufferNames)) + 1],
             BufferNames[((k - 1) % Len(BufferNames)) + 1]>>]

\* what done() and redoPlacement hand over for a list of buckets: those
\* with something in a buffer serialized, and the transferables of all
ResultOf(bk, ids) ==
    [kind |-> "result", buckets |-> SerializeBuckets(bk, ids),
     transferables |-> GetTransferables(bk, ids)]

----------------------------------------------------------------------------
(* The tile and its parse closures as one value, so that the nested calls  *)
(* (gotDependency -> parseBucket, done -> redoPlacement -> placeFeatures)  *)
(* compose.  log collects what one operation did.                          *)

EmptyLog ==
    [cts |-> <<>>,        \* collision structures parse constructed
     populated |-> <<>>,  \* <<parse, bucket>> of each populateBuffers call
     placed |-> <<>>,     \* <<parse, bucket>> of each placeFeatures call of redoPlacement
     passes |-> <<>>,     \* the placement passes redoPlacement ran
     calls |-> <<>>]      \* the callback invocations

World ==
    [status |-> status, angle |-> angle, pitch |-> pitch,
     flag |-> redoPlacementAfterDone, sb |-> symbolBuckets,
     parses |-> parses, statuses |-> statusLog, log |-> EmptyLog]

EmptyResult == [kind |-> "empty"]

RedoBucketIdsAll(w) == w.parses[w.sb.p].buckets

\* var buckets = this.symbolBuckets
RedoBucketIds(w) == w.sb.ids

RedoCollisionTileReused(w, a, pt) ==
    IF Len(redos) > 0 THEN redos[Len(redos)].ctEnd ELSE NewCollisionTile(a, pt)

\* var collisionTile = new CollisionTile(angle, pitch)
RedoCollisionTile(w, a, pt) == NewCollisionTile(a, pt)

RECURSIVE PlacePass(_, _, _, _, _)
\* for (i = buckets.length - 1; i >= 0; i--) buckets[i].placeFeatures(...)
PlacePass(w, p, ids, ct, i) ==
    IF i < 1 THEN [w |-> w, ct |-> ct]
    ELSE LET r == PlaceFeatures(w.parses[p].bk[ids[i]], ct)
         IN PlacePass([w EXCEPT !.parses[p].bk[ids[i]] = r.b,
                                !.log.placed = Append(@, <<p, ids[i]>>)],
                      p, ids, r.ct, i - 1)

DeferRedoToggle(w, a) == [w EXCEPT !.flag = ~w.flag, !.angle = a]

\* the branch of redoPlacement taken while the status is not 'done'
DeferRedo(w, a) == [w EXCEPT !.flag = TRUE, !.angle = a]

\* WorkerTile.prototype.redoPlacement(angle, pitch, showCollisionBoxes):
\* the tile afterwards and the value returned
RedoPlacement(w, a, pt) ==
    IF w.status # "done"
    THEN [w |-> DeferRedo(w, a), ret |-> EmptyResult]
    ELSE LET ct0 == RedoCollisionTile(w, a, pt)
             ids == RedoBucketIds(w)
             r == PlacePass(w, w.sb.p, ids, ct0, Len(ids))
             ret == ResultOf(r.w.parses[w.sb.p].bk, ids)
         IN [w |-> [r.w EXCEPT !.log.passes =
                        Append(@, [angle |-> a, pitch |-> pt, ct0 |-> ct0,
                                   ctEnd |-> r.ct, ret |-> ret])],
             ret |-> ret]

\* callback(err) / callback(null, result)
Callback(w, p, call) ==
    [w EXCEPT !.parses[p].calls = Append(@, call), !.log.calls = Append(@, call)]

DoneReplaySkipped(w) == [w EXCEPT !.flag = FALSE]

\* if (tile.redoPlacementAfterDone) { tile.redoPlacement(tile.angle,
\* tile.pitch, null); tile.redoPlacementAfterDone = false; }
DoneReplay(w) ==
    IF w.flag
    THEN [RedoPlacement(w, w.angle, w.pitch).w EXCEPT !.flag = FALSE]
    ELSE w

\* function done() of parse p
Done(w, p) ==
    LET w1 == DoneReplay([w EXCEPT !.status = "done", !.statuses = Append(@, "done")])
    IN Callback(w1, p, ResultOf(w1.parses[p].bk, w1.parses[p].buckets))

\* function parseBucket(tile, bucket) of parse p
ParseBucket(w, p, id) ==
    LET cl == w.parses[p]
        b == cl.bk[id]
        r == IF b.type = "symbol"
             THEN SymbolPopulateBuffers(b, cl.collisionTile)
             ELSE [b |-> CirclePopulateBuffers(b), ct |-> cl.collisionTile]
    IN [w EXCEPT !.parses[p].bk[id] = [r.b EXCEPT !.features = <<>>],
                 !.parses[p].collisionTile = r.ct,
                 !.parses[p].tess = Append(@, id),
                 !.log.populated = Append(@, <<p, id>>)]

RECURSIVE ParseBucketsForward(_, _, _, _)
ParseBucketsForward(w, p, ids, i) ==
    IF i < 1 THEN w
    ELSE ParseBucketsForward(ParseBucket(w, p, ids[Len(ids) + 1 - i]), p, ids, i - 1)

RECURSIVE ParseBuckets(_, _, _, _)
\* for (i = ids.length - 1; i >= 0; i--) parseBucket(tile, ids[i])
ParseBuckets(w, p, ids, i) ==
    IF i < 1 THEN w
    ELSE ParseBuckets(ParseBucket(w, p, ids[i]), p, ids, i - 1)

DepFailedNever(err) == FALSE

\* if (err)
DepFailed(err) == err # NoErr

GateOpenEarly(deps) == deps >= 1

\* if (deps === 2)
GateOpen(deps) == deps = NumDeps

\* function gotDependency(err) of parse p
GotDependency(w, p, err) ==
    IF DepFailed(err)
    THEN Callback(w, p, [kind |-> "error", err |-> err])
    ELSE LET w1 == [w EXCEPT !.parses[p].deps = @ + 1]
         IN IF GateOpen(w1.parses[p].deps)
            THEN Done(ParseBuckets(w1, p, w1.parses[p].symbolBuckets,
                                   Len(w1.parses[p].symbolBuckets)), p)
            ELSE w1

\* "Get dependencies for symbol buckets": the glyph request always, the
\* icon request when icons are named, else gotDependency() at once
RequestDependencies(w, p) ==
    IF Len(w.parses[p].symbolBuckets) > 0
    THEN LET w1 == [w EXCEPT !.parses[p].glyphs = "pending"]
         IN IF IconsNeeded(w.parses[p].bk, w.parses[p].symbolBuckets)
            THEN [w1 EXCEPT !.parses[p].icons = "pending"]
            ELSE GotDependency([w1 EXCEPT !.parses[p].icons = "trivial"], p, NoErr)
    ELSE w

NoSymbolsAlways(cl) == TRUE

\* if (symbolBuckets.length === 0) return done()
NoSymbols(cl) == Len(cl.symbolBuckets) = 0

\* the closure of a parse call up to "var collisionTile = ..."
NewClosure(layers, data, src, z, a, pt) ==
    LET ids == BucketIds(layers, src, z)
        bk == SortData(IndexRefLayers(CreateBuckets(layers, src, z), layers, src, 1), ids, data)
    IN [bk |-> bk, ids |-> ids,
        buckets |-> NonEmptyIds(bk, ids),
        symbolBuckets |-> SymbolIds(bk, ids),
        otherBuckets |-> OtherIds(bk, ids),
        collisionTile |-> NewCollisionTile(a, pt),
        deps |-> 0,
        glyphs |-> "none",    \* none | pending | ok | err
        icons |-> "none",     \* none | pending | ok | err | trivial
        tess |-> <<>>,        \* history: buckets in the order they were populated
        calls |-> <<>>]       \* history: the invocations of callback

\* WorkerTile.prototype.parse(data, layers, actor, callback) as call p
ParseCall(w, layers, data, z) ==
    LET p == Len(w.parses) + 1
        cl == NewClosure(layers, data, TileSource, z, w.angle, w.pitch)
        w0 == [w EXCEPT !.status = "parsing",
                        !.statuses = Append(@, "parsing"),
                        !.parses = Append(@, cl),
                        !.sb = [p |-> p, ids |-> cl.symbolBuckets],
                        !.log.cts = Append(@, cl.collisionTile)]
        w1 == RequestDependencies(w0, p)
        w2 == ParseBuckets(w1, p, cl.otherBuckets, Len(cl.otherBuckets))
    IN IF NoSymbols(cl) THEN Done(w2, p) ELSE w2

----------------------------------------------------------------------------
(* Spec: the operations on one tile                                        *)

LastTwo(s) == IF Len(s) <= 2 THEN s ELSE SubSeq(s, Len(s) - 1, Len(s))

\* the tile and the closures take the values of w; last and redos record
\* the operation
Commit(w, op, p, ret) ==
    /\ status' = w.status
    /\ angle' = w.angle
    /\ pitch' = w.pitch
    /\ redoPlacementAfterDone' = w.flag
    /\ symbolBuckets' = w.sb
    /\ parses' = w.parses
    /\ statusLog' = w.statuses
    /\ last' = [op |-> op, p |-> p, log |-> w.log, ret |-> ret]
    /\ redos' = LastTwo(redos \o w.log.passes)
    /\ deferredAngle' = IF w.log.passes # <<>> THEN {} ELSE deferredAngle
    /\ UNCHANGED <<zoom, cb, fed, sideVars>>

NewCircleBucket == NewBucket(Layer("circles", "circle", TileSource, "a", MatchAll, TRUE))

TileIdle ==
    /\ zoom \in Zooms
    /\ status = "unparsed"
    /\ angle \in Angles
    /\ pitch \in Pitches
    /\ redoPlacementAfterDone = FALSE
    /\ symbolBuckets = [p |-> 0, ids |-> <<>>]
    /\ parses = <<>>
    /\ last = [op |-> "new", p |-> 0, log |-> EmptyLog, ret |-> EmptyResult]
    /\ redos = <<>>
    /\ statusLog = <<>>
    /\ deferredAngle = {}

\* no FeatureTree under observation
TreeIdle == tree = <<>> /\ inserted = <<>> /\ lastTree = <<>>

\* no geometry test made
GeoIdle == geo = <<>>

\* no parse arguments under observation
LayersIdle == job = <<>> /\ sorted = <<>>

\* new WorkerTile(params)
Init ==
    /\ TileIdle
    /\ cb = NewCircleBucket
    /\ fed = 0
    /\ TreeIdle /\ GeoIdle /\ LayersIdle

\* tile.parse(data, layers, actor, callback) on a tile not parsed before
Parse ==
    /\ status = "unparsed"
    /\ \E layers \in Styles, data \in TileData :
          Commit(ParseCall(World, layers, data, zoom), "parse", Len(parses) + 1, EmptyResult)

\* the response to 'get glyphs' of parse p arrives
GlyphsResponse ==
    \E p \in 1..Len(parses), err \in {NoErr, "glyphs failed"} :
        /\ parses[p].glyphs = "pending"
        /\ Commit(GotDependency([World EXCEPT !.parses[p].glyphs =
                                     IF err = NoErr THEN "ok" ELSE "err"], p, err),
                  "glyphs", p, EmptyResult)

\* the response to 'get icons' of parse p arrives
IconsResponse ==
    \E p \in 1..Len(parses), err \in {NoErr, "icons failed"} :
        /\ parses[p].icons = "pending"
        /\ Commit(GotDependency([World EXCEPT !.parses[p].icons =
                                     IF err = NoErr THEN "ok" ELSE "err"], p, err),
                  "icons", p, EmptyResult)

\* tile.redoPlacement(a, pt, showCollisionBoxes) is called
Redo ==
    \E a \in Angles, pt \in Pitches :
        LET r == RedoPlacement(World, a, pt)
        IN /\ status' = r.w.status
           /\ angle' = r.w.angle
           /\ pitch' = r.w.pitch
           /\ redoPlacementAfterDone' = r.w.flag
           /\ symbolBuckets' = r.w.sb
           /\ parses' = r.w.parses
           /\ statusLog' = r.w.statuses
           /\ last' = [op |-> "redoPlacement", p |-> 0, log |-> r.w.log, ret |-> r.ret]
           /\ redos' = LastTwo(redos \o r.w.log.passes)
           /\ deferredAngle' = IF status # "done" THEN {a} ELSE deferredAngle
           /\ UNCHANGED <<zoom, cb, fed, sideVars>>

Next == Parse \/ GlyphsResponse \/ IconsResponse \/ Redo

Spec == Init /\ [][Next]_vars

----------------------------------------------------------------------------
(* SpecCircle: populateBuffers of one circle bucket, a feature per step    *)

InitCircle ==
    /\ TileIdle
    /\ cb = CreateBuffers(NewCircleBucket)
    /\ fed = 0
    /\ TreeIdle /\ GeoIdle /\ LayersIdle

\* this.addFeature(this.features[i])
CircleFeed ==
    /\ cb.vertexLen < MaxGroupVertices + MaxOverflow
    /\ \E f \in Features :
          /\ cb' = CircleAddFeature(cb, f)
          /\ fed' = fed + InRangeCount(f)
    /\ UNCHANGED <<tileVars, sideVars>>

\* populateBuffers is entered again: this.createBuffers()
CircleCreateBuffers ==
    /\ cb' = CreateBuffers(cb)
    /\ fed' = 0
    /\ UNCHANGED <<tileVars, sideVars>>

NextCircle == CircleFeed \/ CircleCreateBuffers

SpecCircle == InitCircle /\ [][NextCircle]_vars

----------------------------------------------------------------------------
(* SpecVertex: addFeature of one point, at every position of the tile      *)

\* a feature of one point
PointFeature(x, y) == [c |-> 1, icon |-> FALSE, pts |-> << <<x, y>> >>]

\* this.addFeature(feature) on the fresh buffers; the point lies anywhere
\* from just outside the tile on one side to just outside on the other
VertexFeed ==
    /\ fed = 0
    /\ \E x \in (0 - 1)..EXTENT :
          \E y \in {0, x, EXTENT - 1} :
              /\ cb' = CircleAddFeature(cb, PointFeature(x, y))
              /\ fed' = fed + 1
    /\ UNCHANGED <<tileVars, sideVars>>

NextVertex == VertexFeed

SpecVertex == InitCircle /\ [][NextVertex]_vars

----------------------------------------------------------------------------
(* SpecReparse: the operations on one tile when parse may be called again  *)
(* on it, whatever its status, while responses of earlier calls are        *)
(* outstanding                                                             *)

\* calls of parse on the one tile
MaxParses == 2

\* the styles with and without the symbol layer of source layer "a", and
\* the vector tiles of one feature
ReparseStyles == {StyleLayers(<<TRUE, labels, TRUE>>) : labels \in BOOLEAN}
ReparseData == {data \in TileData : data.vt /\ Len(data.feats) = 1}

\* tile.parse(data, layers, actor, callback), on a new tile or again
Reparse ==
    /\ Len(parses) < MaxParses
    /\ \E layers \in ReparseStyles, data \in ReparseData :
          Commit(ParseCall(World, layers, data, zoom), "parse", Len(parses) + 1, EmptyResult)

NextReparse == Reparse \/ GlyphsResponse \/ IconsResponse \/ Redo

SpecReparse == Init /\ [][NextReparse]_vars

----------------------------------------------------------------------------
(* SpecMarkers: the binary-search path for a source layer named 'markers'. *)
(* A feature has the properties c (a colour index) and d (a time); the     *)
(* layer is sorted by d + c * COLOR_OFFSET.  With 0 <= d < COLOR_OFFSET    *)
(* (10^10, beyond the integers at hand but exact as a double) that order   *)
(* is the order of the pairs (c, d), which is how keys are compared here.  *)

MarkerFeatures == [c : {0, 1}, d : {1, 2}]
MarkerTimes == 0..3

\* (properties.d + properties.c * COLOR_OFFSET) - find < 0
KeyBelow(properties, color, time) ==
    properties.c < color \/ (properties.c = color /\ properties.d < time)

\* the features of a layer are in the order of their keys
IsSortedLayer(layer) ==
    \A i \in 1..(Len(layer) - 1) : ~KeyBelow(layer[i + 1], layer[i].c, layer[i].d)

RECURSIVE FeaturesFindLoop(_, _, _, _, _)
\* while (low !== high) of featuresFind
FeaturesFindLoop(layer, color, time, low, high) ==
    IF low = high THEN low
    ELSE LET mid == (low + high) \div 2
         IN IF KeyBelow(layer[mid + 1], color, time)
            THEN FeaturesFindLoop(layer, color, time, mid + 1, high)
            ELSE FeaturesFindLoop(layer, color, time, low, mid)

\* featuresFind(layer, color, time): {} is null, {n} the index n
FeaturesFind(layer, color, time) ==
    LET low == FeaturesFindLoop(layer, color, time, 0, Len(layer))
    IN IF low = Len(layer) THEN {} ELSE {low}

\* an index as a number: null counts as 0
ToNumber(idx) == IF idx = {} THEN 0 ELSE Num(idx)

\* featuresSlice(layer, begin, end), for end - begin >= 0
FeaturesSlice(layer, begin, end) ==
    [n \in 1..(ToNumber(end) - ToNumber(begin)) |-> layer[n + ToNumber(begin)]]

\* if (startIdx && !endIdx)
NeedsFallback(startIdx, endIdx) == Truthy(startIdx) /\ ~Truthy(endIdx)

\* the body of the loop of sortLayerIntoBucketsBinarySearch for one bucket:
\* the features the bucket gets
MarkersSlice(layer, filterValues) ==
    LET startIdx == FeaturesFind(layer, filterValues.colorIdx, filterValues.startTime)
        endIdx == FeaturesFind(layer, filterValues.colorIdx, filterValues.endTime)
    IN FeaturesSlice(layer, startIdx,
                     IF NeedsFallback(startIdx, endIdx) THEN {Len(layer)} ELSE endIdx)

\* a sorted 'markers' layer and the filter values of a bucket, a time range
\* of one colour
MarkerJobs ==
    {j \in [layer : SeqsUpTo(MarkerFeatures, MaxMarkers),
            filterValues : [colorIdx : {0, 1}, startTime : MarkerTimes, endTime : MarkerTimes]] :
        IsSortedLayer(j.layer) /\ j.filterValues.startTime <= j.filterValues.endTime}

InitMarkers ==
    /\ TileIdle /\ angle = 0 /\ pitch = 0
    /\ cb = NewCircleBucket
    /\ fed = 0
    /\ TreeIdle /\ GeoIdle
    /\ job \in MarkerJobs
    /\ sorted = <<>>

\* sortLayerIntoBucketsBinarySearch(layer, buckets) with the one bucket
MarkersSort ==
    /\ sorted = <<>>
    /\ sorted' = <<MarkersSlice(job.layer, job.filterValues)>>
    /\ UNCHANGED <<tileVars, circleVars, treeVars, geo, job>>

NextMarkers == MarkersSort

SpecMarkers == InitMarkers /\ [][NextMarkers]_vars

----------------------------------------------------------------------------
(* Narrow-phase geometry of FeatureTree.  A point is <<x, y>>; a line, a   *)
(* ring and a query polygon are sequences of points.  Coordinates and      *)
(* radii are integers, and a squared distance is the exact fraction        *)
(* num / den: the segments of the inputs have a squared length that is a   *)
(* power of two, for which the doubles of the code are exact as well.      *)

\* p.distSqr(q)
DistSqr(p, q) ==
    (p[1] - q[1]) * (p[1] - q[1]) + (p[2] - q[2]) * (p[2] - q[2])

\* distToSegmentSquared(p, v, w).  With t = dot / l2, t < 0 is dot < 0 and
\* t > 1 is dot > l2; the last return, the squared distance of p to
\* v + t (w - v), is |p - v|^2 - dot^2 / l2.
DistToSegmentSquared(p, v, w) ==
    LET l2 == DistSqr(v, w)
        dot == (p[1] - v[1]) * (w[1] - v[1]) + (p[2] - v[2]) * (w[2] - v[2])
    IN IF l2 = 0 THEN [num |-> DistSqr(p, v), den |-> 1]
       ELSE IF dot < 0 THEN [num |-> DistSqr(p, v), den |-> 1]
       ELSE IF dot > l2 THEN [num |-> DistSqr(p, w), den |-> 1]
       ELSE [num |-> DistSqr(p, v) * l2 - dot * dot, den |-> l2]

WithinRadiusClosed(d, radiusSquared) == d.num <= radiusSquared * d.den

\* the comparisons `... < radiusSquared` of pointIntersectsBufferedLine
WithinRadius(d, radiusSquared) == d.num < radiusSquared * d.den

\* pointIntersectsBufferedLine(p, line, radius)
PointIntersectsBufferedLine(p, line, radius) ==
    LET radiusSquared == radius * radius
    IN IF Len(line) = 1
       THEN WithinRadius([num |-> DistSqr(p, line[1]), den |-> 1], radiusSquared)
       ELSE \E i \in 2..Len(line) :
                WithinRadius(DistToSegmentSquared(p, line[i - 1], line[i]), radiusSquared)

\* isCounterClockwise(a, b, c)
IsCounterClockwise(a, b, c) ==
    (c[2] - a[2]) * (b[1] - a[1]) > (b[2] - a[2]) * (c[1] - a[1])

\* lineSegmentIntersectsLineSegment(a0, a1, b0, b1)
LineSegmentIntersectsLineSegment(a0, a1, b0, b1) ==
    /\ IsCounterClockwise(a0, b0, b1) # IsCounterClockwise(a1, b0, b1)
    /\ IsCounterClockwise(a0, a1, b0) # IsCounterClockwise(a0, a1, b1)

\* lineIntersectsLine(lineA, lineB)
LineIntersectsLine(lineA, lineB) ==
    \E i \in 1..(Len(lineA) - 1) : \E j \in 1..(Len(lineB) - 1) :
        LineSegmentIntersectsLineSegment(lineA[i], lineA[i + 1], lineB[j], lineB[j + 1])

\* the test of the ray casting loops for the edge p1 p2: the division by
\* p2.y - p1.y (not 0, by the first conjunct) is multiplied out
RayCrosses(p1, p2, p) ==
    /\ (p1[2] > p[2]) # (p2[2] > p[2])
    /\ LET dy == p2[2] - p1[2]
           n == (p2[1] - p1[1]) * (p[2] - p1[2])
       IN IF dy > 0 THEN (p[1] - p1[1]) * dy < n ELSE (p[1] - p1[1]) * dy > n

\* j of `for (i = 0, j = ring.length - 1; i < ring.length; j = i++)`
PrevIndex(ring, i) == IF i = 1 THEN Len(ring) ELSE i - 1

\* polygonContainsPoint(ring, p): c is toggled once per edge crossed
PolygonContainsPoint(ring, p) ==
    Cardinality({i \in 1..Len(ring) : RayCrosses(ring[i], ring[PrevIndex(ring, i)], p)}) % 2 = 1

\* multiPolygonContainsPoint(rings, p): one c for all the rings
MultiPolygonContainsPoint(rings, p) ==
    Cardinality(UNION {{<<k, i>> : i \in {i \in 1..Len(rings[k]) :
                                  RayCrosses(rings[k][i], rings[k][PrevIndex(rings[k], i)], p)}} :
                       k \in 1..Len(rings)}) % 2 = 1

\* lineIntersectsBufferedLine(lineA, lineB, radius)
LineIntersectsBufferedLine(lineA, lineB, radius) ==
    \/ /\ Len(lineA) > 1
       /\ \/ LineIntersectsLine(lineA, lineB)
          \/ \E j \in 1..Len(lineB) : PointIntersectsBufferedLine(lineB[j], lineA, radius)
    \/ \E k \in 1..Len(lineA) : PointIntersectsBufferedLine(lineA[k], lineB, radius)

\* polygonIntersectsBufferedMultiLine(polygon, multiLine, radius)
PolygonIntersectsBufferedMultiLine(polygon, multiLine, radius) ==
    \E i \in 1..Len(multiLine) :
        \/ /\ Len(polygon) >= 3
           /\ \E k \in 1..Len(multiLine[i]) : PolygonContainsPoint(polygon, multiLine[i][k])
        \/ LineIntersectsBufferedLine(polygon, multiLine[i], radius)

\* polygonIntersectsBufferedMultiPoint(polygon, rings, radius)
PolygonIntersectsBufferedMultiPoint(polygon, rings, radius) ==
    \E i \in 1..Len(rings) : \E k \in 1..Len(rings[i]) :
        \/ PolygonContainsPoint(polygon, rings[i][k])
        \/ PointIntersectsBufferedLine(rings[i][k], polygon, radius)

\* polygonIntersectsMultiPolygon(polygon, multiPolygon)
PolygonIntersectsMultiPolygon(polygon, multiPolygon) ==
    IF Len(polygon) = 1 THEN MultiPolygonContainsPoint(multiPolygon, polygon[1])
    ELSE \/ \E m \in 1..Len(multiPolygon) : \E n \in 1..Len(multiPolygon[m]) :
                PolygonContainsPoint(polygon, multiPolygon[m][n])
         \/ \E i \in 1..Len(polygon) : MultiPolygonContainsPoint(multiPolygon, polygon[i])
         \/ \E k \in 1..Len(multiPolygon) : LineIntersectsLine(polygon, multiPolygon[k])

----------------------------------------------------------------------------
(* FeatureTree: the grid, the feature index records, serialize and query.  *)
(* Grid, StructArray, DictionaryCoder, the vector tile decoder and         *)
(* loadGeometry are not part of the sources at hand: the grid keeps its    *)
(* entries and answers a range query with the keys of the boxes that meet  *)
(* the range; the decoder turns the raw tile into its named layers.        *)

\* longest sequence of insert calls on one FeatureTree
MaxInserts == 3

Infinite == {}  \* Infinity or -Infinity; {n} is the number n

\* Math.min / Math.max with an accumulator that starts infinite
MathMin(a, n) == IF a = Infinite \/ n < Num(a) THEN {n} ELSE a
MathMax(a, n) == IF a = Infinite \/ n > Num(a) THEN {n} ELSE a

\* [Infinity, Infinity, -Infinity, -Infinity]
NoBBox == <<Infinite, Infinite, Infinite, Infinite>>

RECURSIVE RingBBox(_, _, _)
\* the loop over the points of a ring (insert) or of the query geometry
\* (query), from point i on
RingBBox(ring, i, bbox) ==
    IF i > Len(ring) THEN bbox
    ELSE RingBBox(ring, i + 1, <<MathMin(bbox[1], ring[i][1]), MathMin(bbox[2], ring[i][2]),
                                 MathMax(bbox[3], ring[i][1]), MathMax(bbox[4], ring[i][2])>>)

\* new Grid(16, EXTENT, 0)
NewGrid == <<>>

\* grid.insert(key, x1, y1, x2, y2)
GridInsert(grid, key, x1, y1, x2, y2) ==
    Append(grid, [key |-> key, x1 |-> x1, y1 |-> y1, x2 |-> x2, y2 |-> y2])

\* grid.query(x1, y1, x2, y2): a key once per entry met
GridQuery(grid, x1, y1, x2, y2) ==
    LET met == SelectSeq(grid, LAMBDA e : x1 <= e.x2 /\ y1 <= e.y2 /\ x2 >= e.x1 /\ y2 >= e.y1)
    IN [i \in 1..Len(met) |-> met[i].key]

RECURSIVE GridKeys(_)
GridKeys(grid) == IF grid = <<>> THEN <<>> ELSE <<Head(grid).key>> \o GridKeys(Tail(grid))

RECURSIVE GridBoxes(_)
GridBoxes(grid) ==
    IF grid = <<>> THEN <<>>
    ELSE <<Head(grid).x1, Head(grid).y1, Head(grid).x2, Head(grid).y2>> \o GridBoxes(Tail(grid))

\* grid.toArrayBuffer(): the number of entries, the keys, the boxes
GridToArrayBuffer(grid) == <<Len(grid)>> \o GridKeys(grid) \o GridBoxes(grid)

\* new Grid(arrayBuffer)
GridFromArrayBuffer(buffer) ==
    LET n == buffer[1]
    IN [i \in 1..n |-> [key |-> buffer[1 + i],
                        x1 |-> buffer[1 + n + 4 * (i - 1) + 1],
                        y1 |-> buffer[1 + n + 4 * (i - 1) + 2],
                        x2 |-> buffer[1 + n + 4 * (i - 1) + 3],
                        y2 |-> buffer[1 + n + 4 * (i - 1) + 4]]]

\* featureIndexArray.emplaceBack(featureIndex, sourceLayerIndex,
\* bucketIndex) into the members Uint32, Uint16, Uint16 (feature indices
\* stay far below 2^32)
EmplaceBack(array, featureIndex, sourceLayerIndex, bucketIndex) ==
    Append(array, [featureIndex |-> featureIndex,
                   sourceLayerIndex |-> sourceLayerIndex % Uint16Size,
                   bucketIndex |-> bucketIndex % Uint16Size])

RECURSIVE ArrayInts(_)
ArrayInts(array) ==
    IF array = <<>> THEN <<>>
    ELSE <<Head(array).featureIndex, Head(array).sourceLayerIndex, Head(array).bucketIndex>>
         \o ArrayInts(Tail(array))

\* featureIndexArray.serialize()
SerializeArray(array) == [arrayBuffer |-> ArrayInts(array), length |-> Len(array)]

\* new FeatureIndexArray(serialized)
DeserializeArray(serialized) ==
    [i \in 1..serialized.length |->
        [featureIndex |-> serialized.arrayBuffer[3 * (i - 1) + 1],
         sourceLayerIndex |-> serialized.arrayBuffer[3 * (i - 1) + 2],
         bucketIndex |-> serialized.arrayBuffer[3 * (i - 1) + 3]]]

RECURSIVE Log2(_)
\* Math.log(overscaling) / Math.LN2, overscaling a power of two
Log2(n) == IF n <= 1 THEN 0 ELSE 1 + Log2(n \div 2)

\* the assignments both branches of the constructor end in; an undefined
\* field is <<>>, a defined one <<value>>
TreeFields(coord, overscaling, collisionTile, grid, array, rawTileData, bucketLayerIDs) ==
    [coord |-> coord, overscaling |-> overscaling,
     x |-> coord.x, y |-> coord.y, z |-> coord.z - Log2(overscaling),
     grid |-> grid, featureIndexArray |-> array,
     rawTileData |-> rawTileData, bucketLayerIDs |-> bucketLayerIDs,
     collisionTile |-> collisionTile,
     vtLayers |-> <<>>, sourceLayerCoder |-> <<>>,
     decodes |-> 0]  \* history: how often vtLayers was built

\* new FeatureTree(coord, overscaling, collisionTile)
NewFeatureTree(coord, overscaling, collisionTile) ==
    TreeFields(coord, overscaling, collisionTile, NewGrid, <<>>, <<>>, <<>>)

\* new FeatureTree(serialized, rawTileData, collisionTile)
FeatureTreeFromSerialized(serialized, rawTileData, collisionTile) ==
    TreeFields(serialized.coord, serialized.overscaling, collisionTile,
               GridFromArrayBuffer(serialized.grid),
               DeserializeArray(serialized.featureIndexArray),
               <<rawTileData>>, serialized.bucketLayerIDs)

\* loadGeometry(feature): the rings of the feature in tile units; a ring
\* has at least one point
LoadGeometry(feature) == feature.rings

InsertKeyAfter(t) == Len(t.featureIndexArray) + 1

\* var key = this.featureIndexArray.length
InsertKey(t) == Len(t.featureIndexArray)

RECURSIVE InsertRings(_, _, _, _)
\* the loop over the rings of insert, from ring r on
InsertRings(t, key, geometry, r) ==
    IF r > Len(geometry) THEN t
    ELSE LET bbox == RingBBox(geometry[r], 1, NoBBox)
         IN InsertRings([t EXCEPT !.grid = GridInsert(@, key, Num(bbox[1]), Num(bbox[2]),
                                                      Num(bbox[3]), Num(bbox[4]))],
                        key, geometry, r + 1)

\* FeatureTree.prototype.insert(feature, featureIndex, sourceLayerIndex,
\* bucketIndex)
TreeInsert(t, feature, featureIndex, sourceLayerIndex, bucketIndex) ==
    LET key == InsertKey(t)
        t1 == [t EXCEPT !.featureIndexArray =
                            EmplaceBack(@, featureIndex, sourceLayerIndex, bucketIndex)]
    IN InsertRings(t1, key, LoadGeometry(feature), 1)

TreeSerializeNoLayerIDs(t) ==
    LET data == [coord |-> t.coord, overscaling |-> t.overscaling,
                 grid |-> GridToArrayBuffer(t.grid),
                 featureIndexArray |-> SerializeArray(t.featureIndexArray),
                 bucketLayerIDs |-> <<>>]
    IN [data |-> data, transferables |-> <<data.grid, data.featureIndexArray.arrayBuffer>>]

\* FeatureTree.prototype.serialize()
TreeSerialize(t) ==
    LET data == [coord |-> t.coord, overscaling |-> t.overscaling,
                 grid |-> GridToArrayBuffer(t.grid),
                 featureIndexArray |-> SerializeArray(t.featureIndexArray),
                 bucketLayerIDs |-> t.bucketLayerIDs]
    IN [data |-> data, transferables |-> <<data.grid, data.featureIndexArray.arrayBuffer>>]

\* new vt.VectorTile(new Protobuf(new Uint8Array(rawTileData))).layers: the
\* raw tile lists <<name, features>> layer by layer
VtLayers(rawTileData) ==
    [name \in {rawTileData[i][1] : i \in 1..Len(rawTileData)} |->
        rawTileData[CHOOSE i \in 1..Len(rawTileData) : rawTileData[i][1] = name][2]]

\* the source layer names there are, sorted
SourceLayerOrder == <<"a", "b">>

\* Object.keys(vtLayers).sort()
SortedKeys(layers) == SelectSeq(SourceLayerOrder, LAMBDA name : name \in DOMAIN layers)

NeedsDecodeAlways(t) == TRUE

\* if (!this.vtLayers)
NeedsDecode(t) == t.vtLayers = <<>>

\* the first statement of query
TreeDecode(t) ==
    IF NeedsDecode(t)
    THEN LET layers == VtLayers(t.rawTileData[1])
         IN [t EXCEPT !.vtLayers = <<layers>>,
                      !.sourceLayerCoder = <<SortedKeys(layers)>>,
                      !.decodes = @ + 1]
    ELSE t

\* the integer square root; the translations of the inputs have one
Sqrt(n) == CHOOSE r \in 0..n : r * r = n

\* translateDistance(translate)
TranslateDistance(translate) ==
    Sqrt(translate[1] * translate[1] + translate[2] * translate[2])

\* getLineWidth(paint)
GetLineWidth(paint) ==
    IF paint.lineGapWidth > 0 THEN paint.lineGapWidth + 2 * paint.lineWidth
    ELSE paint.lineWidth

\* styleLayerDistance of one style layer (line widths are even numbers)
StyleLayerDistance(styleLayer) ==
    IF styleLayer.type = "line"
    THEN GetLineWidth(styleLayer.paint) \div 2 + Abs(styleLayer.paint.lineOffset)
         + TranslateDistance(styleLayer.paint.translate)
    ELSE IF styleLayer.type = "fill"
    THEN TranslateDistance(styleLayer.paint.translate)
    ELSE IF styleLayer.type = "circle"
    THEN styleLayer.paint.circleRadius + TranslateDistance(styleLayer.paint.translate)
    ELSE 0

\* additionalRadius after the loop over styleLayers
AdditionalRadius(styleLayers, pixelsToTileUnits) ==
    LET candidates == {0} \cup {StyleLayerDistance(styleLayers[id]) * pixelsToTileUnits :
                                   id \in DOMAIN styleLayers}
    IN CHOOSE m \in candidates : \A c \in candidates : c <= m

\* EXTENT / args.tileSize / args.scale (a whole number for the inputs)
PixelsToTileUnits(args) == (EXTENT \div args.tileSize) \div args.scale

RECURSIVE Power(_, _)
Power(b, e) == IF e = 0 THEN 1 ELSE b * Power(b, e - 1)

\* translate(queryGeometry, translate, translateAnchor, bearing,
\* pixelsToTileUnits).  _mult scales the translate vector in place, once
\* per point; the bearing of the inputs is 0, where _rotate changes
\* nothing.
Translate(queryGeometry, translate, translateAnchor, bearing, pixelsToTileUnits) ==
    IF translate[1] = 0 /\ translate[2] = 0 THEN queryGeometry
    ELSE [i \in 1..Len(queryGeometry) |->
             <<queryGeometry[i][1] - translate[1] * Power(pixelsToTileUnits, i),
               queryGeometry[i][2] - translate[2] * Power(pixelsToTileUnits, i)>>]

Sign(n) == IF n > 0 THEN 1 ELSE IF n < 0 THEN 0 - 1 ELSE 0

\* _unit() and _perp() of point-geometry.  The lines offsetLine is given
\* here run along an axis from a point with a coordinate 0, so every vector
\* it norms lies along an axis and every quotient is a whole number.
Unit(v) == <<Sign(v[1]), Sign(v[2])>>
Perp(v) == <<0 - v[2], v[1]>>

RECURSIVE OffsetRing(_, _, _, _, _)
\* the loop over the points of one ring of offsetLine, from point i on.
\* zero is what the point `zero` holds: for the first point of a ring aToB
\* is that very object, which _add, _unit, _mult change in place and which
\* is pushed; for the last point bToC is that object.
OffsetRing(ring, offset, i, zero, newRing) ==
    IF i > Len(ring) THEN [zero |-> zero, newRing |-> newRing]
    ELSE LET b == ring[i]
             aToB == IF i = 1 THEN zero
                     ELSE Perp(Unit(<<b[1] - ring[i - 1][1], b[2] - ring[i - 1][2]>>))
             bToC == IF i = Len(ring) THEN zero
                     ELSE Perp(Unit(<<ring[i + 1][1] - b[1], ring[i + 1][2] - b[2]>>))
             extrude == Unit(<<aToB[1] + bToC[1], aToB[2] + bToC[2]>>)
             held == IF i = 1 /\ i = Len(ring) THEN extrude ELSE bToC
             cosHalfAngle == extrude[1] * held[1] + extrude[2] * held[2]
             point == <<(extrude[1] * offset) \div cosHalfAngle + b[1],
                        (extrude[2] * offset) \div cosHalfAngle + b[2]>>
         IN OffsetRing(ring, offset, i + 1, IF i = 1 THEN point ELSE zero,
                       Append(newRing, point))

RECURSIVE OffsetRings(_, _, _, _, _)
\* the loop over the rings of offsetLine, from ring k on; the first point
\* of every new ring is the one object `zero`
OffsetRings(rings, offset, k, zero, newRings) ==
    IF k > Len(rings) THEN [r \in 1..Len(newRings) |-> [newRings[r] EXCEPT ![1] = zero]]
    ELSE LET r == OffsetRing(rings[k], offset, 1, zero, <<>>)
         IN OffsetRings(rings, offset, k + 1, r.zero, Append(newRings, r.newRing))

\* offsetLine(rings, offset)
OffsetLine(rings, offset) == OffsetRings(rings, offset, 1, <<0, 0>>, <<>>)

\* the variable geometry of filterMatching when the narrow phase of one
\* style layer tests it: loaded unless a layer before has, and for a line
\* layer with a line-offset replaced by what offsetLine makes of it
LayerGeometry(styleLayer, geometry, feature, q) ==
    LET loaded == IF geometry = <<>> THEN <<LoadGeometry(feature)>> ELSE geometry
    IN IF styleLayer.type = "symbol" THEN geometry
       ELSE IF styleLayer.type = "line" /\ styleLayer.paint.lineOffset # 0
       THEN <<OffsetLine(loaded[1], styleLayer.paint.lineOffset * q.pixelsToTileUnits)>>
       ELSE loaded

\* the narrow-phase test of filterMatching for one style layer on the
\* geometry it is given; q holds the arguments of filterMatching
NarrowPhase(styleLayer, geometry, q) ==
    LET paint == styleLayer.paint
        translatedPolygon == Translate(q.queryGeometry, paint.translate,
                                       paint.translateAnchor, q.bearing, q.pixelsToTileUnits)
    IN IF styleLayer.type = "line"
       THEN PolygonIntersectsBufferedMultiLine(translatedPolygon, geometry,
                (GetLineWidth(paint) \div 2) * q.pixelsToTileUnits)
       ELSE IF styleLayer.type = "fill"
       THEN PolygonIntersectsMultiPolygon(translatedPolygon, geometry)
       ELSE IF styleLayer.type = "circle"
       THEN PolygonIntersectsBufferedMultiPoint(translatedPolygon, geometry,
                paint.circleRadius * q.pixelsToTileUnits)
       ELSE TRUE

\* new GeoJSONFeature(feature, z, x, y) with its layer
GeoJSONFeature(feature, z, x, y, layerID) ==
    [feature |-> feature, z |-> z, x |-> x, y |-> y, layer |-> layerID]

Contains(s, e) == \E i \in 1..Len(s) : s[i] = e

\* arraysIntersect(a, b)
ArraysIntersect(a, b) == \E i \in 1..Len(a) : Contains(b, a[i])

RECURSIVE FilterLayers(_, _, _, _, _, _, _)
\* the loop over layerIDs of filterMatching, from l on; geometry is <<>>
\* (null) or <<the rings loaded>>
FilterLayers(t, result, feature, layerIDs, l, geometry, q) ==
    IF l > Len(layerIDs) THEN result
    ELSE LET layerID == layerIDs[l]
         IN IF q.filterLayerIDs # {} /\ ~Contains(Num(q.filterLayerIDs), layerID)
            THEN FilterLayers(t, result, feature, layerIDs, l + 1, geometry, q)
            ELSE IF layerID \notin DOMAIN q.styleLayers
            THEN FilterLayers(t, result, feature, layerIDs, l + 1, geometry, q)
            ELSE LET styleLayer == q.styleLayers[layerID]
                     loaded == LayerGeometry(styleLayer, geometry, feature, q)
                 IN IF styleLayer.type # "symbol" /\ ~NarrowPhase(styleLayer, loaded[1], q)
                    THEN FilterLayers(t, result, feature, layerIDs, l + 1, loaded, q)
                    ELSE FilterLayers(t, [result EXCEPT ![layerID] =
                                             Append(@, GeoJSONFeature(feature, t.z, t.x, t.y, layerID))],
                                      feature, layerIDs, l + 1, loaded, q)

RECURSIVE FilterMatching(_, _, _, _, _, _, _)
\* FeatureTree.prototype.filterMatching, from matching[k] on; previousIndex
\* is {} (undefined) or {index}
FilterMatching(t, result, matching, array, q, k, previousIndex) ==
    IF k > Len(matching) THEN result
    ELSE LET index == matching[k]
             match == array[index + 1]
             layerIDs == t.bucketLayerIDs[1][match.bucketIndex + 1]
             sourceLayerName == t.sourceLayerCoder[1][match.sourceLayerIndex + 1]
             feature == t.vtLayers[1][sourceLayerName][match.featureIndex + 1]
         IN IF previousIndex = {index}
            THEN FilterMatching(t, result, matching, array, q, k + 1, previousIndex)
            ELSE IF q.filterLayerIDs # {} /\ ~ArraysIntersect(Num(q.filterLayerIDs), layerIDs)
            THEN FilterMatching(t, result, matching, array, q, k + 1, {index})
            ELSE IF feature.c \notin q.filter
            THEN FilterMatching(t, result, matching, array, q, k + 1, {index})
            ELSE FilterMatching(t, FilterLayers(t, result, feature, layerIDs, 1, <<>>, q),
                                matching, array, q, k + 1, {index})

RemoveAt(s, i) == SubSeq(s, 1, i - 1) \o SubSeq(s, i + 1, Len(s))

SortNot(s) == s

RECURSIVE SortDescending(_)
\* matching.sort(topDownFeatureComparator)
SortDescending(s) ==
    IF s = <<>> THEN <<>>
    ELSE LET i == CHOOSE i \in 1..Len(s) : \A j \in 1..Len(s) : s[j] <= s[i]
         IN <<s[i]>> \o SortDescending(RemoveAt(s, i))

RECURSIVE SortDefault(_)
\* matchingSymbols.sort(): by the decimal strings, which for the one-digit
\* indices of the inputs is ascending
SortDefault(s) ==
    IF s = <<>> THEN <<>>
    ELSE LET i == CHOOSE i \in 1..Len(s) : \A j \in 1..Len(s) : s[i] <= s[j]
         IN <<s[i]>> \o SortDefault(RemoveAt(s, i))

\* collisionTile.queryRenderedSymbols(minX, minY, maxX, maxY, scale): the
\* indices into collisionBoxArray of the placed boxes the range meets
QueryRenderedSymbols(collisionTile, minX, minY, maxX, maxY, scale) ==
    LET boxes == collisionTile.collisionBoxArray
        met == SelectSeq([i \in 1..Len(boxes) |-> i],
                         LAMBDA i : /\ minX <= boxes[i].x2 /\ minY <= boxes[i].y2
                                    /\ maxX >= boxes[i].x1 /\ maxY >= boxes[i].y1)
    IN [i \in 1..Len(met) |-> met[i] - 1]

\* FeatureTree.prototype.query(args, styleLayers): the tree afterwards and
\* the result, a list of features per style layer (none is <<>>)
TreeQuery(t0, args, styleLayers) ==
    LET t == TreeDecode(t0)
        pixelsToTileUnits == PixelsToTileUnits(args)
        q == [queryGeometry |-> args.queryGeometry, filter |-> args.params.filter,
              filterLayerIDs |-> args.params.layers, styleLayers |-> styleLayers,
              bearing |-> args.bearing, pixelsToTileUnits |-> pixelsToTileUnits]
        additionalRadius == AdditionalRadius(styleLayers, pixelsToTileUnits)
        box == RingBBox(args.queryGeometry, 1, NoBBox)
        minX == Num(box[1])
        minY == Num(box[2])
        maxX == Num(box[3])
        maxY == Num(box[4])
        matching == SortDescending(GridQuery(t.grid, minX - additionalRadius,
                                             minY - additionalRadius,
                                             maxX + additionalRadius,
                                             maxY + additionalRadius))
        grid == FilterMatching(t, [id \in DOMAIN styleLayers |-> <<>>], matching,
                               t.featureIndexArray, q, 1, {})
        matchingSymbols == SortDefault(QueryRenderedSymbols(t.collisionTile, minX, minY,
                                                            maxX, maxY, args.scale))
    IN [tree |-> t,
        result |-> FilterMatching(t, grid, matchingSymbols,
                                  t.collisionTile.collisionBoxArray, q, 1, {})]

----------------------------------------------------------------------------
(* SpecTree: one FeatureTree of a tile with a road, a park and a town      *)

\* the features of the raw tile; c is the property queries filter on
RoadFeature == [c |-> 1, rings |-> << << <<0, 0>>, <<4, 0>> >> >>]
ParkFeature == [c |-> 1, rings |-> << << <<0, 4>>, <<0, 8>>, <<4, 8>>, <<4, 4>> >>,
                                      << <<6, 0>>, <<8, 0>>, <<8, 2>> >> >>]
TownFeature == [c |-> 2, rings |-> << << <<6, 6>> >> >>]

\* the raw tile: layer "b" before layer "a"
RawTile == << <<"b", <<TownFeature>> >>, <<"a", <<RoadFeature, ParkFeature>> >> >>

\* bucketLayerIDs: the style layers fused in bucket 0, 1, 2, 3
BucketLayerIDs == << <<"road", "road-case">>, <<"park">>, <<"town">>, <<"town-label">> >>

\* the collision structure of the tile: the label of the town is placed
TreeCollisionTile ==
    [collisionBoxArray |-> << [featureIndex |-> 0, sourceLayerIndex |-> 1, bucketIndex |-> 3,
                               x1 |-> 5, y1 |-> 5, x2 |-> 7, y2 |-> 7] >>]

TreeCoords == {[z |-> 3, x |-> 1, y |-> 2]}
Overscalings == {4}

\* what the buckets hand to insert: feature 0 and 1 of source layer "a"
\* (index 0), feature 0 of source layer "b" (index 1)
Insertions ==
    {[featureIndex |-> 0, sourceLayerIndex |-> 0, bucketIndex |-> 0],
     [featureIndex |-> 1, sourceLayerIndex |-> 0, bucketIndex |-> 1],
     [featureIndex |-> 0, sourceLayerIndex |-> 1, bucketIndex |-> 2],
     [featureIndex |-> 0, sourceLayerIndex |-> 1, bucketIndex |-> 3]}

\* the feature an insertion is about
InsertionFeature(ins) ==
    VtLayers(RawTile)[SourceLayerOrder[ins.sourceLayerIndex + 1]][ins.featureIndex + 1]

Paint(lineWidth, lineGapWidth, circleRadius, translate) ==
    [lineWidth |-> lineWidth, lineGapWidth |-> lineGapWidth, lineOffset |-> 0,
     circleRadius |-> circleRadius, translate |-> translate, translateAnchor |-> "map"]

\* the style layers a query is given
StyleAll ==
    [id \in {"road", "road-case", "park", "town", "town-label"} |->
        IF id = "road" THEN [type |-> "line", paint |-> Paint(4, 0, 0, <<0, 0>>)]
        ELSE IF id = "road-case" THEN [type |-> "line", paint |-> Paint(2, 2, 0, <<0, 0>>)]
        ELSE IF id = "park" THEN [type |-> "fill", paint |-> Paint(0, 0, 0, <<0, 0>>)]
        ELSE IF id = "town" THEN [type |-> "circle", paint |-> Paint(0, 0, 1, <<0, 0>>)]
        ELSE [type |-> "symbol", paint |-> Paint(0, 0, 0, <<0, 0>>)]]

StyleMoved ==
    [id \in {"road", "park"} |->
        IF id = "road" THEN [type |-> "line", paint |-> Paint(2, 0, 0, <<0, 0>>)]
        ELSE [type |-> "fill", paint |-> Paint(0, 0, 0, <<0, 4>>)]]

QueryStyles == {StyleAll, StyleMoved}

QueryGeometries ==
    {<< <<2, 2>> >>, << <<1, 5>> >>,
     << <<5, 5>>, <<7, 5>>, <<7, 7>>, <<5, 7>> >>,
     << <<0, 0>>, <<8, 0>>, <<8, 8>>, <<0, 8>> >>}

\* args.params: layers is {} (undefined) or {the list of ids}
QueryParams ==
    {[filter |-> MatchAll, layers |-> {}],
     [filter |-> {1}, layers |-> {}],
     [filter |-> MatchAll, layers |-> {<<"town-label", "road-case">>}]}

\* args of query
QueryArgs ==
    [queryGeometry : QueryGeometries, tileSize : {EXTENT}, scale : {1}, bearing : {0},
     params : QueryParams]

\* the tree of a tile as the worker holds it before the buckets insert:
\* constructed, then given the raw tile and the bucket layer ids
TreeReady(coord, overscaling) ==
    [NewFeatureTree(coord, overscaling, TreeCollisionTile) EXCEPT
         !.rawTileData = <<RawTile>>, !.bucketLayerIDs = <<BucketLayerIDs>>]

InitTree ==
    /\ TileIdle /\ angle = 0 /\ pitch = 0
    /\ cb = NewCircleBucket
    /\ fed = 0
    /\ GeoIdle /\ LayersIdle
    /\ \E coord \in TreeCoords, overscaling \in Overscalings :
          tree = TreeReady(coord, overscaling)
    /\ inserted = <<>>
    /\ lastTree = [op |-> "new", decoded |-> FALSE, ret |-> <<>>]

\* tree.insert(feature, featureIndex, sourceLayerIndex, bucketIndex)
TreeInsertCall ==
    /\ Len(inserted) < MaxInserts
    /\ \E ins \in Insertions :
          /\ tree' = TreeInsert(tree, InsertionFeature(ins), ins.featureIndex,
                                ins.sourceLayerIndex, ins.bucketIndex)
          /\ inserted' = Append(inserted, [feature |-> InsertionFeature(ins), args |-> ins])
          /\ lastTree' = [op |-> "insert", decoded |-> tree'.decodes # tree.decodes,
                          ret |-> <<>>]
    /\ UNCHANGED <<tileVars, circleVars, geo, layerVars>>

\* tree.serialize()
TreeSerializeCall ==
    /\ lastTree' = [op |-> "serialize", decoded |-> FALSE, ret |-> TreeSerialize(tree)]
    /\ UNCHANGED <<tree, inserted>>
    /\ UNCHANGED <<tileVars, circleVars, geo, layerVars>>

\* tree.query(args, styleLayers)
TreeQueryCall ==
    /\ \E args \in QueryArgs, styleLayers \in QueryStyles :
          LET r == TreeQuery(tree, args, styleLayers)
          IN /\ tree' = r.tree
             /\ lastTree' = [op |-> "query", decoded |-> r.tree.decodes # tree.decodes,
                             ret |-> r.result]
    /\ UNCHANGED inserted
    /\ UNCHANGED <<tileVars, circleVars, geo, layerVars>>

NextTree == TreeInsertCall \/ TreeSerializeCall \/ TreeQueryCall

SpecTree == InitTree /\ [][NextTree]_vars

----------------------------------------------------------------------------
(* SpecQuery: one query of a FeatureTree the buckets have filled           *)

\* what the buckets hand to insert: as in Insertions, and feature 1 of
\* source layer "a" from the bucket of the road layers as well
BucketInsertions ==
    Insertions \cup {[featureIndex |-> 1, sourceLayerIndex |-> 0, bucketIndex |-> 0]}

RECURSIVE DistinctSeqs(_, _)
\* the sequences of up to n different members of S
DistinctSeqs(S, n) ==
    IF n = 0 THEN {<<>>}
    ELSE LET shorter == DistinctSeqs(S, n - 1)
         IN shorter \cup UNION {{Append(q, x) : x \in {y \in S : ~Contains(q, y)}} :
                                 q \in {t \in shorter : Len(t) = n - 1}}

RECURSIVE InsertAll(_, _, _)
\* the tree after the insert calls from calls[i] on
InsertAll(t, calls, i) ==
    IF i > Len(calls) THEN t
    ELSE InsertAll(TreeInsert(t, InsertionFeature(calls[i]), calls[i].featureIndex,
                              calls[i].sourceLayerIndex, calls[i].bucketIndex),
                   calls, i + 1)

\* a tree of a tile without placed labels, after each bucket has inserted
\* each of its features at most once
InitQuery ==
    /\ TileIdle /\ angle = 0 /\ pitch = 0
    /\ cb = NewCircleBucket
    /\ fed = 0
    /\ GeoIdle /\ LayersIdle
    /\ \E coord \in TreeCoords, overscaling \in Overscalings,
          calls \in DistinctSeqs(BucketInsertions, MaxInserts) :
          /\ tree = InsertAll([TreeReady(coord, overscaling) EXCEPT
                                  !.collisionTile = [collisionBoxArray |-> <<>>]],
                              calls, 1)
          /\ inserted = [i \in 1..Len(calls) |->
                             [feature |-> InsertionFeature(calls[i]), args |-> calls[i]]]
    /\ lastTree = [op |-> "new", decoded |-> FALSE, ret |-> <<>>]

\* tree.query(args, styleLayers), the first query of the tree
FirstQuery ==
    /\ lastTree.op = "new"
    /\ \E args \in QueryArgs, styleLayers \in QueryStyles :
          LET r == TreeQuery(tree, args, styleLayers)
          IN /\ tree' = r.tree
             /\ lastTree' = [op |-> "query", decoded |-> r.tree.decodes # tree.decodes,
                             ret |-> r.result, args |-> args, styleLayers |-> styleLayers]
    /\ UNCHANGED inserted
    /\ UNCHANGED <<tileVars, circleVars, geo, layerVars>>

NextQuery == FirstQuery

SpecQuery == InitQuery /\ [][NextQuery]_vars

----------------------------------------------------------------------------
(* SpecFused: the loop of filterMatching over the style layers fused in    *)
(* one bucket, for one feature                                             *)

FusedLayerIDs == {"road", "road-side"}

\* a line along the x axis and one along the y axis
FusedFeatures ==
    {[c |-> 1, rings |-> << << <<0, 0>>, <<4, 0>> >> >>],
     [c |-> 1, rings |-> << << <<0, 0>>, <<0, 4>> >> >>]}

\* two line layers of width 2: "road" without a line-offset, "road-side"
\* with one or without, so that offsetLine is given loaded geometry only
FusedStyles ==
    {[id \in FusedLayerIDs |->
         [type |-> "line",
          paint |-> [Paint(2, 0, 0, <<0, 0>>) EXCEPT
                        !.lineOffset = IF id = "road-side" THEN offset ELSE 0]]] :
        offset \in {0 - 2, 0, 2}}

\* the arguments of filterMatching that the loop reads
FusedQuery(p, styleLayers) ==
    [queryGeometry |-> <<p>>, filter |-> MatchAll, filterLayerIDs |-> {},
     styleLayers |-> styleLayers, bearing |-> 0, pixelsToTileUnits |-> 1]

\* the ids of the layers the loop reported the feature under
Reported(result) == {id \in DOMAIN result : result[id] # <<>>}

InitFused ==
    /\ TileIdle /\ angle = 0 /\ pitch = 0
    /\ cb = NewCircleBucket
    /\ fed = 0
    /\ TreeIdle /\ LayersIdle
    /\ geo \in [feature : FusedFeatures,
                layerIDs : DistinctSeqs(FusedLayerIDs, 2) \ {<<>>},
                styleLayers : FusedStyles,
                p : {<<x, y>> : x \in (0 - 1)..4, y \in (0 - 1)..4},
                called : {FALSE}, together : {{}}, alone : {{}}]

\* the loop over layerIDs for the feature: once over the layers of the
\* bucket together, and once over each of them as the only layer of it
FusedLoop ==
    /\ ~geo.called
    /\ LET t == TreeReady([z |-> 3, x |-> 1, y |-> 2], 4)
           q == FusedQuery(geo.p, geo.styleLayers)
           none == [id \in FusedLayerIDs |-> <<>>]
       IN geo' = [geo EXCEPT
                     !.called = TRUE,
                     !.together = Reported(FilterLayers(t, none, geo.feature, geo.layerIDs,
                                                        1, <<>>, q)),
                     !.alone = {id \in FusedLayerIDs :
                                   /\ Contains(geo.layerIDs, id)
                                   /\ id \in Reported(FilterLayers(t, none, geo.feature, <<id>>,
                                                                1, <<>>, q))}]
    /\ UNCHANGED <<tileVars, circleVars, treeVars, layerVars>>

NextFused == FusedLoop

SpecFused == InitFused /\ [][NextFused]_vars

----------------------------------------------------------------------------
(* SpecGeo: the tests of the line kind on a lattice                        *)

\* largest coordinate of the lattice
MaxCoord == 4

\* largest radius tested
MaxRadius == 2

GeoCoords == 0..MaxCoord
GeoPoints == {<<x, y>> : x \in GeoCoords, y \in GeoCoords}

\* a straight line, a bent line, a diagonal, a line of one point and a line
\* of two equal points
GeoLines ==
    {<< <<0, 0>>, <<4, 0>> >>,
     << <<0, 0>>, <<0, 2>>, <<2, 2>> >>,
     << <<0, 0>>, <<2, 2>> >>,
     << <<1, 1>> >>,
     << <<1, 1>>, <<1, 1>> >>}

\* the query polygons: the lattice points and the lattice rectangles, a
\* rectangle closed by its first corner
GeoPolygons ==
    {<<p>> : p \in GeoPoints} \cup
    {<< <<x1, y1>>, <<x2, y1>>, <<x2, y2>>, <<x1, y2>>, <<x1, y1>> >> :
        x1 \in GeoCoords, x2 \in GeoCoords, y1 \in GeoCoords, y2 \in GeoCoords}

\* the arguments of one call, not made yet
GeoCalls ==
    {[kind |-> "point", p |-> p, polygon |-> <<>>, lines |-> <<line>>, radius |-> radius,
      called |-> FALSE, hit |-> FALSE] :
        p \in GeoPoints, line \in GeoLines, radius \in 0..MaxRadius} \cup
    {[kind |-> "polygon", p |-> <<>>, polygon |-> polygon, lines |-> <<line>>,
      radius |-> radius, called |-> FALSE, hit |-> FALSE] :
        polygon \in GeoPolygons, line \in GeoLines, radius \in 0..MaxRadius}

InitGeo ==
    /\ TileIdle /\ angle = 0 /\ pitch = 0
    /\ cb = NewCircleBucket
    /\ fed = 0
    /\ TreeIdle /\ LayersIdle
    /\ geo \in GeoCalls

\* pointIntersectsBufferedLine(p, line, radius)
PointTest ==
    /\ geo.kind = "point" /\ ~geo.called
    /\ geo' = [geo EXCEPT !.called = TRUE,
                          !.hit = PointIntersectsBufferedLine(geo.p, geo.lines[1], geo.radius)]
    /\ UNCHANGED <<tileVars, circleVars, treeVars, layerVars>>

\* polygonIntersectsBufferedMultiLine(polygon, multiLine, radius)
PolygonTest ==
    /\ geo.kind = "polygon" /\ ~geo.called
    /\ geo' = [geo EXCEPT !.called = TRUE,
                          !.hit = PolygonIntersectsBufferedMultiLine(geo.polygon, geo.lines,
                                                                     geo.radius)]
    /\ UNCHANGED <<tileVars, circleVars, treeVars, layerVars>>

NextGeo == PointTest \/ PolygonTest

SpecGeo == InitGeo /\ [][NextGeo]_vars

----------------------------------------------------------------------------
(* SpecTranslate: translate on query polygons of several points and scales *)

\* most points of a query polygon
MaxQueryPoints == 3

\* values of pixelsToTileUnits: EXTENT / tileSize / scale
TileUnits == {1, 2, 16}

InitTranslate ==
    /\ TileIdle /\ angle = 0 /\ pitch = 0
    /\ cb = NewCircleBucket
    /\ fed = 0
    /\ TreeIdle /\ LayersIdle
    /\ geo \in [queryGeometry : SeqsUpTo({<<x, y>> : x \in 0..1, y \in 0..1}, MaxQueryPoints)
                                    \ {<<>>},
                translate : {<<x, y>> : x \in (0 - 1)..1, y \in (0 - 1)..1},
                pixelsToTileUnits : TileUnits,
                called : {FALSE}, translated : {<<>>}]

\* translate(queryGeometry, translate, 'map', 0, pixelsToTileUnits)
TranslateCall ==
    /\ ~geo.called
    /\ geo' = [geo EXCEPT !.called = TRUE,
                          !.translated = Translate(geo.queryGeometry, geo.translate, "map", 0,
                                                   geo.pixelsToTileUnits)]
    /\ UNCHANGED <<tileVars, circleVars, treeVars, layerVars>>

NextTranslate == TranslateCall

SpecTranslate == InitTranslate /\ [][NextTranslate]_vars

----------------------------------------------------------------------------
(* SpecSegments: the segment test on every pair of segments of a lattice   *)

\* largest coordinate of the lattice of segment ends
MaxSegmentCoord == 2

SegmentPoints == {<<x, y>> : x \in 0..MaxSegmentCoord, y \in 0..MaxSegmentCoord}

InitSegments ==
    /\ TileIdle /\ angle = 0 /\ pitch = 0
    /\ cb = NewCircleBucket
    /\ fed = 0
    /\ TreeIdle /\ LayersIdle
    /\ geo \in [a0 : SegmentPoints, a1 : SegmentPoints, b0 : SegmentPoints, b1 : SegmentPoints,
                called : {FALSE}, hit : {FALSE}, swapped : {FALSE}]

\* lineSegmentIntersectsLineSegment(a0, a1, b0, b1) and, with the segments
\* swapped, lineSegmentIntersectsLineSegment(b0, b1, a0, a1)
SegmentTest ==
    /\ ~geo.called
    /\ geo' = [geo EXCEPT !.called = TRUE,
                          !.hit = LineSegmentIntersectsLineSegment(geo.a0, geo.a1, geo.b0, geo.b1),
                          !.swapped = LineSegmentIntersectsLineSegment(geo.b0, geo.b1,
                                                                       geo.a0, geo.a1)]
    /\ UNCHANGED <<tileVars, circleVars, treeVars, layerVars>>

NextSegments == SegmentTest

SpecSegments == InitSegments /\ [][NextSegments]_vars

----------------------------------------------------------------------------
(* SpecLayers: one parse call over a style with zoom ranges and ref layers *)

LayerZooms == {0, 1}
ZoomLimits == {NoZoom, {0}, {1}, {2}}

\* a ref layer as the worker receives it: its own id, the id of its target
\* under ref, and the source, type, source layer, zoom range, filter and
\* layout of the target
RefLayer(id, target) == [target EXCEPT !.id = id, !.ref = target.id]

\* The style: a circle layer with a zoom range and a visibility, two symbol
\* layers, a layer of another source, and ref layers to them and to an id
\* the style does not hold; one ref layer is declared before its target.
LayerStyle(minzoom, maxzoom, visible) ==
    LET circles == [Layer("circles", "circle", TileSource, "a", {1}, visible)
                       EXCEPT !.minzoom = minzoom, !.maxzoom = maxzoom]
        labels == Layer("labels", "symbol", TileSource, "a", MatchAll, TRUE)
        far == Layer("far", "circle", "other", "a", MatchAll, TRUE)
        missing == Layer("missing", "circle", TileSource, "a", MatchAll, TRUE)
    IN << RefLayer("circles-glow", circles),
          circles,
          RefLayer("circles-hot", circles),
          labels,
          Layer("pois", "symbol", TileSource, "b", {2}, TRUE),
          RefLayer("labels-halo", labels),
          far,
          RefLayer("far-case", far),
          RefLayer("ghost", missing) >>

LayerStyles ==
    {LayerStyle(minzoom, maxzoom, visible) :
        minzoom \in ZoomLimits, maxzoom \in ZoomLimits, visible \in BOOLEAN}

\* new WorkerTile(params), and the arguments parse will be called with
InitLayers ==
    /\ zoom \in LayerZooms
    /\ status = "unparsed"
    /\ angle = 0
    /\ pitch = 0
    /\ redoPlacementAfterDone = FALSE
    /\ symbolBuckets = [p |-> 0, ids |-> <<>>]
    /\ parses = <<>>
    /\ last = [op |-> "new", p |-> 0, log |-> EmptyLog, ret |-> EmptyResult]
    /\ redos = <<>>
    /\ statusLog = <<>>
    /\ deferredAngle = {}
    /\ cb = NewCircleBucket
    /\ fed = 0
    /\ TreeIdle /\ GeoIdle
    /\ job \in [layers : LayerStyles, data : TileData]
    /\ sorted = <<>>

\* tile.parse(job.data, job.layers, actor, callback); sorted records
\* bucketsById as the sorting step left it
ParseLayers ==
    /\ status = "unparsed"
    /\ LET w == ParseCall(World, job.layers, job.data, zoom)
           cl == NewClosure(job.layers, job.data, TileSource, zoom, angle, pitch)
       IN /\ status' = w.status
          /\ angle' = w.angle
          /\ pitch' = w.pitch
          /\ redoPlacementAfterDone' = w.flag
          /\ symbolBuckets' = w.sb
          /\ parses' = w.parses
          /\ statusLog' = w.statuses
          /\ last' = [op |-> "parse", p |-> 1, log |-> w.log, ret |-> EmptyResult]
          /\ redos' = LastTwo(redos \o w.log.passes)
          /\ deferredAngle' = deferredAngle
          /\ sorted' = <<cl.bk>>
    /\ UNCHANGED <<zoom, cb, fed, treeVars, geo, job>>

NextLayers == ParseLayers

SpecLayers == InitLayers /\ [][NextLayers]_vars

----------------------------------------------------------------------------
(* Properties                                                              *)

Range(s) == {s[i] : i \in 1..Len(s)}
Reverse(s) == [i \in 1..Len(s) |-> s[Len(s) + 1 - i]]
ParseIds == 1..Len(parses)

\* some symbol bucket of parse p has been through populateBuffers
SymbolTessellated(p) ==
    \E id \in Range(parses[p].symbolBuckets) : parses[p].bk[id].populated

\* a feature sorted into a symbol bucket of parse p names an icon
NamesIcon(p) ==
    \E id \in Range(parses[p].symbolBuckets) :
        \E k \in 1..Len(parses[p].bk[id].matched) : parses[p].bk[id].matched[k].icon

\* C1: a symbol bucket is tessellated only after two completions were
\* counted: the 'get glyphs' response has arrived without error, and so has
\* the 'get icons' response or, when no icon is named (no request is sent),
\* the icon dependency was completed by parse itself.
C1_SymbolsWaitForBothDependencies ==
    \A p \in ParseIds :
        SymbolTessellated(p) =>
            /\ parses[p].glyphs = "ok"
            /\ parses[p].icons = IF NamesIcon(p) THEN "ok" ELSE "trivial"
            /\ parses[p].deps = 2

\* C1 witness: no icon is named, the glyph response has arrived and the
\* symbol buckets are tessellated.
C1_Witness ==
    \E p \in ParseIds :
        /\ SymbolTessellated(p)
        /\ ~NamesIcon(p)
        /\ parses[p].icons = "trivial"
        /\ last.op = "glyphs"

ErrorOf(p) ==
    {e \in Errors : \/ (e = "glyphs failed" /\ parses[p].glyphs = "err")
                    \/ (e = "icons failed" /\ parses[p].icons = "err")}

\* C2: once a dependency request of a parse has failed, the callback has
\* been given that error, no result was or is delivered for that parse and
\* none of its symbol buckets is tessellated.
C2_DependencyErrorIsTerminal ==
    \A p \in ParseIds :
        ErrorOf(p) # {} =>
            /\ \A e \in ErrorOf(p) : [kind |-> "error", err |-> e] \in Range(parses[p].calls)
            /\ \A c \in Range(parses[p].calls) : c.kind # "result"
            /\ ~SymbolTessellated(p)

\* C2 witness: the icon request failed after the glyph response had arrived
\* and a non-symbol bucket was already tessellated.
C2_Witness ==
    \E p \in ParseIds :
        /\ parses[p].icons = "err"
        /\ parses[p].glyphs = "ok"
        /\ \E id \in Range(parses[p].otherBuckets) : parses[p].bk[id].vertexLen > 0

\* what redoPlacement may not touch while it defers
DeferKeeps == <<zoom, status, pitch, symbolBuckets, parses, statusLog, redos>>

\* C3: a redoPlacement call made while the status is not 'done' returns the
\* empty result, constructs no collision structure and places nothing; it
\* sets the pending flag and the angle and nothing else, and a second call
\* with the same angle changes nothing.
C3_DeferredRedo ==
    [][(status # "done" /\ last'.op = "redoPlacement") =>
          /\ last'.ret = EmptyResult
          /\ last'.log = EmptyLog
          /\ redoPlacementAfterDone'
          /\ deferredAngle' = {angle'}
          /\ UNCHANGED DeferKeeps
          /\ (last.op = "redoPlacement" /\ angle' = angle) =>
                 UNCHANGED <<angle, redoPlacementAfterDone>>]_vars

\* C3 witness: the last call was deferred during a parse and changed the
\* angle the tile was created with.
C3_Witness ==
    /\ status = "parsing"
    /\ last.op = "redoPlacement"
    /\ last.ret = EmptyResult
    /\ redoPlacementAfterDone
    /\ \E p \in ParseIds : parses[p].collisionTile.angle # angle

SymbolEntries(ids, buckets) == SelectSeq(buckets, LAMBDA b : b.id \in Range(ids))

\* C4: when a parse reaches 'done' with a deferred redoPlacement pending,
\* that step runs exactly one placement pass, over the symbol buckets in
\* reverse order, with a new collision structure for the angle of the last
\* deferred call and the tile's pitch; the one result handed to the callback
\* holds the symbol buffers that pass produced, and the flag is clear.
C4_DeferredRedoReplayedOnce ==
    [][(status # "done" /\ status' = "done" /\ redoPlacementAfterDone) =>
          /\ Len(last'.log.passes) = 1
          /\ deferredAngle = {last'.log.passes[1].angle}
          /\ last'.log.passes[1].pitch = pitch
          /\ last'.log.passes[1].ct0 =
                 [angle |-> last'.log.passes[1].angle, pitch |-> pitch, placed |-> {}]
          /\ last'.log.placed =
                 Reverse([i \in 1..Len(symbolBuckets'.ids) |->
                             <<symbolBuckets'.p, symbolBuckets'.ids[i]>>])
          /\ Len(last'.log.calls) = 1
          /\ last'.log.calls[1].kind = "result"
          /\ SymbolEntries(symbolBuckets'.ids, last'.log.calls[1].buckets) =
                 last'.log.passes[1].ret.buckets
          /\ ~redoPlacementAfterDone']_vars

\* C4 witness: a parse completed on a dependency response and replayed a
\* deferred call whose angle differs from the one the parse started with,
\* placing at least one label.
C4_Witness ==
    /\ status = "done"
    /\ last.op \in {"glyphs", "icons"}
    /\ Len(last.log.passes) = 1
    /\ last.log.passes[1].angle # parses[last.p].collisionTile.angle
    /\ last.log.passes[1].ret.buckets # <<>>
    /\ ~redoPlacementAfterDone

IsPrefix(s, t) == Len(s) <= Len(t) /\ \A i \in 1..Len(s) : s[i] = t[i]

\* C5: tile.status is assigned 'parsing' and then 'done' and nothing else,
\* and while it is 'done' every bucket with matched features, symbol or
\* not, has been tessellated.
C5_StatusForwardAndDoneMeansTessellated ==
    /\ IsPrefix(statusLog, <<"parsing", "done">>)
    /\ status = (IF statusLog = <<>> THEN "unparsed" ELSE statusLog[Len(statusLog)])
    /\ status = "done" =>
          \A p \in ParseIds : \A id \in DOMAIN parses[p].bk :
              parses[p].bk[id].matched # <<>> => parses[p].bk[id].populated

\* C5 witness: the tile is done after a glyph response, with a symbol and a
\* non-symbol bucket tessellated.
C5_Witness ==
    /\ status = "done"
    /\ last.op = "glyphs"
    /\ \E p \in ParseIds :
          /\ parses[p].otherBuckets # <<>>
          /\ parses[p].symbolBuckets # <<>>
          /\ Len(parses[p].tess) = Len(parses[p].buckets)

RECURSIVE SumVertexLength(_)
SumVertexLength(groups) ==
    IF groups = <<>> THEN 0
    ELSE Head(groups).vertexLength + SumVertexLength(Tail(groups))

\* C6: in a circle bucket being populated no element group ever holds more
\* than 65,535 vertices; the groups partition the vertex buffer, and a
\* group was left for a new one only when four more vertices would have
\* taken it past 65,535.
C6_ElementGroupsWithinLimit ==
    /\ \A g \in 1..Len(cb.groups) : cb.groups[g].vertexLength <= 65535
    /\ \A g \in 1..(Len(cb.groups) - 1) : cb.groups[g].vertexLength + 4 > 65535
    /\ \A g \in 1..Len(cb.groups) :
          cb.groups[g].vertexStartIndex = SumVertexLength(SubSeq(cb.groups, 1, g - 1))
    /\ SumVertexLength(cb.groups) = cb.vertexLen

\* C6 witness: the first group is as full as quads can make it and a second
\* group has received vertices.
C6_Witness ==
    /\ Len(cb.groups) = 2
    /\ cb.groups[1].vertexLength = 65532
    /\ cb.groups[2].vertexLength >= 8

\* the serialized buckets parse has handed to a callback
Delivered(p) ==
    UNION {Range(c.buckets) : c \in {c \in Range(parses[p].calls) : c.kind = "result"}}

\* C7: every bucket in a result of parse had a matched feature and holds
\* something in a buffer; a bucket without matched features is neither
\* tessellated nor delivered; a circle bucket none of whose points lies in
\* [0, EXTENT) has no vertex and is not delivered.
C7_OnlyNonEmptyBucketsDelivered ==
    \A p \in ParseIds :
        /\ \A s \in Delivered(p) :
              /\ parses[p].bk[s.id].matched # <<>>
              /\ s.vertexLen > 0 \/ s.elementLen > 0
        /\ \A id \in DOMAIN parses[p].bk :
              LET b == parses[p].bk[id]
              IN /\ b.matched = <<>> =>
                       /\ ~b.populated
                       /\ \A s \in Delivered(p) : s.id # id
                 /\ (b.type = "circle" /\ b.populated /\ InRangeTotal(b.matched) = 0) =>
                       /\ b.vertexLen = 0
                       /\ \A s \in Delivered(p) : s.id # id

\* C7 witness: a result was delivered although one bucket had no matched
\* feature and a tessellated circle bucket had only points outside the tile.
C7_Witness ==
    \E p \in ParseIds :
        /\ Delivered(p) # {}
        /\ \E id \in DOMAIN parses[p].bk : parses[p].bk[id].matched = <<>>
        /\ \E id \in DOMAIN parses[p].bk :
              /\ parses[p].bk[id].type = "circle"
              /\ parses[p].bk[id].populated
              /\ InRangeTotal(parses[p].bk[id].matched) = 0

\* C8: a tessellated circle bucket holds four vertices and two triangles
\* for each point of its features inside [0, EXTENT) x [0, EXTENT), and
\* nothing else.
C8_CircleQuadPerInRangePoint ==
    \A p \in ParseIds : \A id \in DOMAIN parses[p].bk :
        LET b == parses[p].bk[id]
        IN (b.type = "circle" /\ b.populated) =>
              /\ b.vertexLen = 4 * InRangeTotal(b.matched)
              /\ b.elementLen = 2 * InRangeTotal(b.matched)

\* C8 witness: a tessellated circle bucket two features of which each have
\* one point outside and one inside the tile.
C8_Witness ==
    \E p \in ParseIds : \E id \in DOMAIN parses[p].bk :
        /\ parses[p].bk[id].type = "circle"
        /\ parses[p].bk[id].populated
        /\ parses[p].bk[id].matched = <<FeatureB, FeatureB>>
        /\ parses[p].bk[id].vertexLen = 8

\* C9: a redoPlacement call on a 'done' tile calls populateBuffers on no
\* bucket and placeFeatures once on each symbol bucket, last bucket first,
\* in one pass against one collision structure constructed empty for the
\* angle and pitch given; no non-symbol bucket changes, the status stays
\* 'done' and the result holds symbol buckets only.
C9_RedoPlacesSymbolsOnly ==
    [][(status = "done" /\ last'.op = "redoPlacement") =>
          /\ last'.log.populated = <<>>
          /\ last'.log.cts = <<>>
          /\ last'.log.calls = <<>>
          /\ last'.log.placed =
                 Reverse([i \in 1..Len(symbolBuckets.ids) |->
                             <<symbolBuckets.p, symbolBuckets.ids[i]>>])
          /\ Len(last'.log.passes) = 1
          /\ last'.log.passes[1].ct0 =
                 [angle |-> last'.log.passes[1].angle,
                  pitch |-> last'.log.passes[1].pitch, placed |-> {}]
          /\ last'.ret = last'.log.passes[1].ret
          /\ \A p \in ParseIds : \A id \in DOMAIN parses[p].bk :
                 parses[p].bk[id].type # "symbol" => parses'[p].bk[id] = parses[p].bk[id]
          /\ status' = "done"
          /\ \A s \in Range(last'.ret.buckets) :
                 /\ s.id \in Range(symbolBuckets.ids)
                 /\ parses[symbolBuckets.p].bk[s.id].type = "symbol"
          /\ UNCHANGED <<symbolBuckets, statusLog>>]_vars

\* C9 witness: redoPlacement ran on a done tile with two symbol buckets and
\* a non-empty circle bucket, right after another executed call.
C9_Witness ==
    /\ status = "done"
    /\ last.op = "redoPlacement"
    /\ Len(last.log.placed) = 2
    /\ Len(redos) = 2
    /\ \E id \in Range(parses[symbolBuckets.p].otherBuckets) :
          parses[symbolBuckets.p].bk[id].vertexLen > 0

\* C10: of two successive placement passes on a done tile with the same
\* angle and pitch, the second returns what the first returned.
C10_RedoIdempotent ==
    (/\ Len(redos) = 2
     /\ redos[1].angle = redos[2].angle
     /\ redos[1].pitch = redos[2].pitch) => redos[1].ret = redos[2].ret

\* C10 witness: two redoPlacement calls with the same angle and pitch, the
\* first of which accepted labels of two buckets.
C10_Witness ==
    /\ Len(redos) = 2
    /\ last.op = "redoPlacement"
    /\ redos[1].angle = redos[2].angle
    /\ redos[1].pitch = redos[2].pitch
    /\ Len(redos[1].ret.buckets) = 2
    /\ redos[2].ctEnd.placed # {}

\* C11: a FeatureTree rebuilt from serialize().data, the raw tile and the
\* collision structure has the coord, overscaling, x, y, z, grid entries,
\* feature index records and bucketLayerIDs of the tree serialized, and
\* answers every query as that tree does.
C11_SerializeRoundTrip ==
    lastTree.op = "serialize" =>
        LET twin == FeatureTreeFromSerialized(lastTree.ret.data, tree.rawTileData[1],
                                              tree.collisionTile)
        IN /\ twin.coord = tree.coord
           /\ twin.overscaling = tree.overscaling
           /\ <<twin.x, twin.y, twin.z>> = <<tree.x, tree.y, tree.z>>
           /\ twin.grid = tree.grid
           /\ twin.featureIndexArray = tree.featureIndexArray
           /\ twin.bucketLayerIDs = tree.bucketLayerIDs
           /\ \A args \in QueryArgs, styleLayers \in QueryStyles :
                  TreeQuery(twin, args, styleLayers).result =
                      TreeQuery(tree, args, styleLayers).result

\* C11 witness: a tree with a two-ring feature among three inserted, which
\* has answered a query already, is serialized, and the tree rebuilt finds
\* features for two style layers.
C11_Witness ==
    /\ lastTree.op = "serialize"
    /\ Len(inserted) = 3
    /\ Len(tree.grid) = 4
    /\ tree.decodes = 1
    /\ \E args \in QueryArgs :
          LET twin == FeatureTreeFromSerialized(lastTree.ret.data, tree.rawTileData[1],
                                                tree.collisionTile)
              found == TreeQuery(twin, args, StyleAll).result
          IN found["road-case"] # <<>> /\ found["park"] # <<>>

\* the squared distance of p to the segment v w as a fraction, by the
\* cross product
SegmentDistance(p, v, w) ==
    LET l2 == DistSqr(v, w)
        dot == (p[1] - v[1]) * (w[1] - v[1]) + (p[2] - v[2]) * (w[2] - v[2])
        cross == (w[1] - v[1]) * (p[2] - v[2]) - (w[2] - v[2]) * (p[1] - v[1])
    IN IF l2 = 0 \/ dot <= 0 THEN [num |-> DistSqr(p, v), den |-> 1]
       ELSE IF dot >= l2 THEN [num |-> DistSqr(p, w), den |-> 1]
       ELSE [num |-> cross * cross, den |-> l2]

\* the segments of a line; a line of one point is that point
Segments(line) ==
    IF Len(line) = 1 THEN {<<line[1], line[1]>>}
    ELSE {<<line[i], line[i + 1]>> : i \in 1..(Len(line) - 1)}

\* the squared distances of p to the parts of a line
LineDistances(p, line) == {SegmentDistance(p, e[1], e[2]) : e \in Segments(line)}

Cross(a, b, c) == (b[1] - a[1]) * (c[2] - a[2]) - (b[2] - a[2]) * (c[1] - a[1])

\* c lies in the box spanned by a and b
Between(a, b, c) ==
    /\ (a[1] <= c[1] /\ c[1] <= b[1]) \/ (b[1] <= c[1] /\ c[1] <= a[1])
    /\ (a[2] <= c[2] /\ c[2] <= b[2]) \/ (b[2] <= c[2] /\ c[2] <= a[2])

\* the segments a b and c d have a point in common
SegmentsMeet(a, b, c, d) ==
    \/ /\ (Cross(a, b, c) > 0 /\ Cross(a, b, d) < 0) \/ (Cross(a, b, c) < 0 /\ Cross(a, b, d) > 0)
       /\ (Cross(c, d, a) > 0 /\ Cross(c, d, b) < 0) \/ (Cross(c, d, a) < 0 /\ Cross(c, d, b) > 0)
    \/ Cross(a, b, c) = 0 /\ Between(a, b, c)
    \/ Cross(a, b, d) = 0 /\ Between(a, b, d)
    \/ Cross(c, d, a) = 0 /\ Between(c, d, a)
    \/ Cross(c, d, b) = 0 /\ Between(c, d, b)

\* the squared distances between the corners of one and the segments of
\* the other, both ways: the smallest is the squared distance between a
\* polygon boundary and a line that do not meet
Gaps(polygon, line) ==
    {SegmentDistance(polygon[i], e[1], e[2]) : i \in 1..Len(polygon), e \in Segments(line)}
    \cup {SegmentDistance(line[k], e[1], e[2]) : k \in 1..Len(line), e \in Segments(polygon)}

\* p lies strictly inside the rectangle (or is the point) the polygon is
StrictlyInside(polygon, p) ==
    /\ \E i \in 1..Len(polygon) : polygon[i][1] < p[1]
    /\ \E i \in 1..Len(polygon) : polygon[i][1] > p[1]
    /\ \E i \in 1..Len(polygon) : polygon[i][2] < p[2]
    /\ \E i \in 1..Len(polygon) : polygon[i][2] > p[2]

\* the polygon touches the buffer of half-width radius around the line: it
\* neither meets the line nor holds one of its points, and its boundary is
\* at distance exactly radius
Touches(polygon, line, radius) ==
    /\ radius > 0
    /\ \A e \in Segments(polygon), f \in Segments(line) : ~SegmentsMeet(e[1], e[2], f[1], f[2])
    /\ \A k \in 1..Len(line) : ~StrictlyInside(polygon, line[k])
    /\ \A g \in Gaps(polygon, line) : g.num >= radius * radius * g.den
    /\ \E g \in Gaps(polygon, line) : g.num = radius * radius * g.den

\* C13: a query polygon that touches the boundary of the buffer of a line
\* (nearest point at distance exactly halfWidth, the line not crossed and
\* no point of it inside the polygon) is reported as intersecting by
\* polygonIntersectsBufferedMultiLine.
C13_TouchingPolygonIntersects ==
    (geo.kind = "polygon" /\ geo.called /\ Touches(geo.polygon, geo.lines[1], geo.radius))
        => geo.hit

SetMin(S) == CHOOSE m \in S : \A x \in S : m <= x
SetMax(S) == CHOOSE m \in S : \A x \in S : x <= m

\* the grid entry of a ring under a key
RingEntry(ring, key) ==
    [key |-> key,
     x1 |-> SetMin({ring[i][1] : i \in 1..Len(ring)}),
     y1 |-> SetMin({ring[i][2] : i \in 1..Len(ring)}),
     x2 |-> SetMax({ring[i][1] : i \in 1..Len(ring)}),
     y2 |-> SetMax({ring[i][2] : i \in 1..Len(ring)})]

RECURSIVE RingEntries(_, _)
\* one entry per ring of the i-th and the later features inserted, keyed
\* by the position of the feature's record
RingEntries(calls, i) ==
    IF i > Len(calls) THEN <<>>
    ELSE [r \in 1..Len(calls[i].feature.rings) |->
             RingEntry(calls[i].feature.rings[r], i - 1)]
         \o RingEntries(calls, i + 1)

\* C20: the feature index array holds one record per insert call, in call
\* order, the record of call number k at position k (from 0); the grid
\* holds, per call and per ring of its feature, one entry with the ring's
\* bounding box and the position of the call's record as key, so that
\* every key in the grid is the position of a record.
C20_InsertIndexesEveryRing ==
    /\ Len(tree.featureIndexArray) = Len(inserted)
    /\ \A i \in 1..Len(inserted) : tree.featureIndexArray[i] = inserted[i].args
    /\ tree.grid = RingEntries(inserted, 1)
    /\ \A e \in Range(tree.grid) : e.key \in 0..(Len(tree.featureIndexArray) - 1)

\* C20 witness: three inserts, the second of a feature with two rings whose
\* two grid entries carry key 1.
C20_Witness ==
    /\ Len(inserted) = 3
    /\ inserted[2].feature = ParkFeature
    /\ Len(tree.grid) = 4
    /\ tree.grid[2].key = 1 /\ tree.grid[3].key = 1
    /\ tree.grid[2] # tree.grid[3]
    /\ tree.grid[4].key = 2

\* the zoom lies in the half-open range [layer.minzoom, layer.maxzoom), a
\* limit not set being no limit
InZoomRange(layer, z) ==
    /\ layer.minzoom = NoZoom \/ Num(layer.minzoom) <= z
    /\ layer.maxzoom = NoZoom \/ z < Num(layer.maxzoom)

\* C15: parse creates a bucket for a style layer exactly when the layer's
\* source is the tile's, the layer is no ref layer, the tile zoom lies in
\* [minzoom, maxzoom) and the visibility is not 'none', for every minzoom
\* and maxzoom, 0 included.
C15_BucketIffLayerKept ==
    sorted # <<>> =>
        \A i \in 1..Len(job.layers) :
            LET layer == job.layers[i]
            IN layer.id \in DOMAIN sorted[1] <=>
                   /\ layer.source = TileSource
                   /\ layer.ref = NoRef
                   /\ InZoomRange(layer, zoom)
                   /\ layer.visibility # "none"

\* ids of the layers that name id as their ref, in declaration order
RefsTo(layers, id) ==
    LET refs == SelectSeq(layers, LAMBDA l : l.ref = id)
    IN [i \in 1..Len(refs) |-> refs[i].id]

\* C16: no bucket is created for a ref layer; the layer list of a bucket is
\* the bucket's own layer id followed by the ids of the ref layers naming
\* it, in declaration order; a ref layer whose target has no bucket is in
\* no bucket's layer list, and parse runs on.
C16_RefLayersFusedOrIgnored ==
    sorted # <<>> =>
        /\ \A i \in 1..Len(job.layers) :
              job.layers[i].ref # NoRef => job.layers[i].id \notin DOMAIN sorted[1]
        /\ \A id \in DOMAIN sorted[1] :
              sorted[1][id].layers = <<id>> \o RefsTo(job.layers, id)
        /\ \A i \in 1..Len(job.layers) :
              (job.layers[i].ref # NoRef /\ job.layers[i].ref \notin DOMAIN sorted[1]) =>
                  \A id \in DOMAIN sorted[1] : job.layers[i].id \notin Range(sorted[1][id].layers)
        /\ status \in {"parsing", "done"}

\* C16 witness: the circle layer was dropped for its zoom range, so its two
\* ref layers are ignored like the ref layers to a layer of another source
\* and to a missing id, while the ref layer of the symbol layer is fused.
C16_Witness ==
    /\ sorted # <<>>
    /\ "circles" \notin DOMAIN sorted[1]
    /\ DOMAIN sorted[1] = {"labels", "pois"}
    /\ sorted[1]["labels"].layers = <<"labels", "labels-halo">>
    /\ sorted[1]["pois"].layers = <<"pois">>
    /\ status = "done"

\* the features handed to the buckets of a source layer: those of the
\* source layer in a vector tile (which holds the one source layer "a"),
\* the whole collection of GeoJSON
SourceFeatures(data, sl) ==
    IF data.vt THEN (IF sl = "a" THEN data.feats ELSE <<>>) ELSE data.feats

\* C17: after the sorting step the feature list of each bucket is the
\* subsequence, in source order, of the features of its source layer
\* (vector tile) or of the collection (GeoJSON) that pass its filter; a
\* feature is in every bucket whose filter it passes, and in no bucket of
\* another source layer.
C17_BucketFeaturesAreFilteredSubsequence ==
    sorted # <<>> =>
        \A id \in DOMAIN sorted[1] :
            sorted[1][id].features =
                SelectSeq(SourceFeatures(job.data, sorted[1][id].sl),
                          LAMBDA f : f.c \in sorted[1][id].filter)

\* C17 witness: a vector tile whose features went to two buckets of source
\* layer "a" at once, one of them taking only some, while the bucket of
\* source layer "b" stayed empty although a feature passes its filter.
C17_Witness ==
    /\ sorted # <<>>
    /\ job.data.vt
    /\ DOMAIN sorted[1] = {"circles", "labels", "pois"}
    /\ Len(sorted[1]["labels"].features) = 2
    /\ Len(sorted[1]["circles"].features) = 1
    /\ sorted[1]["circles"].features[1] = sorted[1]["labels"].features[2]
    /\ sorted[1]["pois"].features = <<>>
    /\ \E k \in 1..Len(job.data.feats) : job.data.feats[k].c \in sorted[1]["pois"].filter

\* C18: a redoPlacement deferred while a parse is in flight is replayed,
\* and the flag cleared, by the step in which that parse reports to its
\* callback, be it a result or an error.
C18_DeferredRedoNeverLost ==
    [][(status = "parsing" /\ redoPlacementAfterDone /\ Len(last'.log.calls) > 0) =>
          /\ Len(last'.log.passes) = 1
          /\ ~redoPlacementAfterDone']_vars

\* the buckets of parse p that were handed features, in declaration order
FedIds(p) == SelectSeq(parses[p].ids, LAMBDA id : parses[p].bk[id].matched # <<>>)
FedSymbols(p) == SelectSeq(FedIds(p), LAMBDA id : parses[p].bk[id].type = "symbol")
FedOthers(p) == SelectSeq(FedIds(p), LAMBDA id : parses[p].bk[id].type # "symbol")

\* C19: the buckets of a parse are tessellated in this order: the
\* non-symbol buckets in reverse declaration order, all of them by the
\* parse call itself, then the symbol buckets in reverse declaration order,
\* by one later step; parse constructs one collision structure, no later
\* step of the parse constructs another, the structure keeps the angle and
\* pitch it was constructed with, and it holds the labels of all the symbol
\* buckets of the parse.
C19_TessellationOrder ==
    /\ \A p \in ParseIds :
          \/ parses[p].tess = Reverse(FedOthers(p))
          \/ parses[p].tess = Reverse(FedOthers(p)) \o Reverse(FedSymbols(p))
    /\ last.op = "parse" =>
          /\ last.log.populated =
                 [i \in 1..Len(FedOthers(last.p)) |->
                     <<last.p, Reverse(FedOthers(last.p))[i]>>]
          /\ Len(last.log.cts) = 1
          /\ parses[last.p].collisionTile.angle = last.log.cts[1].angle
          /\ parses[last.p].collisionTile.pitch = last.log.cts[1].pitch
    /\ last.op \in {"glyphs", "icons"} =>
          /\ last.log.cts = <<>>
          /\ \/ last.log.populated = <<>>
             \/ last.log.populated =
                    [i \in 1..Len(FedSymbols(last.p)) |->
                        <<last.p, Reverse(FedSymbols(last.p))[i]>>]
          /\ last.log.populated = <<>> => parses[last.p].collisionTile.placed = {}
          /\ (last.log.populated # <<>> /\ last.log.passes = <<>>) =>
                 parses[last.p].collisionTile.placed =
                     UNION {Range(parses[last.p].bk[id].labels) :
                            id \in Range(FedSymbols(last.p))}

\* C19 witness: a dependency response completed a parse that had tessellated
\* its circle bucket itself, and tessellated its two symbol buckets, the
\* later declared first.
C19_Witness ==
    /\ last.op \in {"glyphs", "icons"}
    /\ status = "done"
    /\ parses[last.p].tess = <<"circles", "pois", "labels">>
    /\ last.log.populated = << <<last.p, "pois">>, <<last.p, "labels">> >>
    /\ parses[last.p].collisionTile.placed # {}

\* the position (from 0) of the record behind an entry of the result list
\* of a style layer: the one insert call of the entry's feature by the
\* bucket the layer belongs to
KeyOf(entry, id) ==
    CHOOSE k \in 0..(Len(inserted) - 1) :
        /\ inserted[k + 1].feature = entry.feature
        /\ Contains(BucketLayerIDs[inserted[k + 1].args.bucketIndex + 1], id)

\* C21: in the result of a query the list of each style layer holds the
\* grid-matched features in strictly descending order of their record
\* positions; so no record is reported twice under a layer, although the
\* grid holds the key of a feature once per ring.
C21_MatchesDescendingAndOnce ==
    lastTree.op = "query" =>
        \A id \in DOMAIN lastTree.ret :
            \A i \in 1..Len(lastTree.ret[id]), j \in 1..Len(lastTree.ret[id]) :
                i < j => KeyOf(lastTree.ret[id][i], id) > KeyOf(lastTree.ret[id][j], id)

\* C21 witness: a query box over the whole tile, on a tree where the road
\* was inserted after the two-ring park by the same bucket, reports the road
\* before the park and each of them once.
C21_Witness ==
    /\ lastTree.op = "query"
    /\ Len(inserted) = 3
    /\ Len(tree.grid) = 5
    /\ Len(lastTree.args.queryGeometry) = 4
    /\ lastTree.ret["road"] = << GeoJSONFeature(RoadFeature, tree.z, tree.x, tree.y, "road"),
                                 GeoJSONFeature(ParkFeature, tree.z, tree.x, tree.y, "road") >>
    /\ Len(lastTree.ret["park"]) = 1

\* the extrusions of the four vertices of a point, in the order written
Extrusions == << <<-1, -1>>, <<1, -1>>, <<1, 1>>, <<-1, 1>> >>

\* floor(v / 2)
DecodePosition(v) == v \div 2

\* 2 * (v mod 2) - 1
DecodeExtrusion(v) == 2 * (v % 2) - 1

\* C22: each coordinate of the four vertices written for a point of the
\* tile is held by a signed 16 bit attribute as position * 2 plus 0 or 1;
\* floor(v / 2) gives back the position and 2 * (v mod 2) - 1 the
\* extrusion, and the four vertices carry (-1,-1), (1,-1), (1,1), (-1,1).
C22_VertexEncodingRoundTrip ==
    cb.quad # <<>> =>
        LET quad == cb.quad[1]
        IN /\ Len(quad.vertices) = QuadVertices
           /\ \A i \in 1..QuadVertices, k \in 1..2 :
                 /\ quad.vertices[i][k] \in 0..(Uint16Size \div 2 - 1)
                 /\ DecodePosition(quad.vertices[i][k]) = quad.point[k]
                 /\ DecodeExtrusion(quad.vertices[i][k]) = Extrusions[i][k]
                 /\ quad.vertices[i][k] = quad.point[k] * 2 + (Extrusions[i][k] + 1) \div 2

\* C22 witness: the point in the last corner of the tile was written.
C22_Witness ==
    /\ cb.quad # <<>>
    /\ cb.quad[1].point = <<EXTENT - 1, EXTENT - 1>>
    /\ cb.quad[1].vertices[3] = <<2 * EXTENT - 1, 2 * EXTENT - 1>>
    /\ cb.vertexLen = QuadVertices

\* C23: the triangle indices written for a point are the index of its first
\* vertex within the element group and the three after it, in the group the
\* four vertices went to; they lie in [0, 65535) and so are held by an
\* unsigned 16 bit element unchanged.
C23_TriangleIndicesWithinGroup ==
    cb.quad # <<>> =>
        LET quad == cb.quad[1]
            group == cb.groups[quad.group]
            first == quad.vertexAt - group.vertexStartIndex
        IN /\ quad.group = Len(cb.groups)
           /\ quad.vertexAt = cb.vertexLen - QuadVertices
           /\ group.vertexStartIndex + group.vertexLength = cb.vertexLen
           /\ quad.indices = << <<first, first + 1, first + 2>>,
                                <<first, first + 3, first + 2>> >>
           /\ \A t \in 1..QuadTriangles, k \in 1..3 :
                 /\ quad.indices[t][k] \in first..(first + QuadVertices - 1)
                 /\ quad.indices[t][k] \in (group.vertexLength - QuadVertices)..(group.vertexLength - 1)
                 /\ quad.indices[t][k] >= 0
                 /\ quad.indices[t][k] < MaxGroupVertices
                 /\ quad.elements[t][k] = quad.indices[t][k]

\* C23 witness: the first point written into a second element group; its
\* indices start at 0 again although 65,532 vertices precede it.
C23_Witness ==
    /\ cb.quad # <<>>
    /\ Len(cb.groups) = 2
    /\ cb.quad[1].vertexAt = cb.groups[2].vertexStartIndex
    /\ cb.quad[1].vertexAt > MaxGroupVertices - QuadVertices
    /\ cb.quad[1].indices[2] = <<0, 3, 2>>

\* C24: in the 'markers' path, when some feature of the layer is not below
\* the start of the bucket's range (a start index is found, be it 0 or any
\* other) and every feature is below its end (no end index is found), the
\* bucket gets every feature from the start index to the end of the layer.
C24_OpenEndedRangeReachesLayerEnd ==
    (/\ sorted # <<>>
     /\ \E i \in 1..Len(job.layer) :
           ~KeyBelow(job.layer[i], job.filterValues.colorIdx, job.filterValues.startTime)
     /\ \A i \in 1..Len(job.layer) :
           KeyBelow(job.layer[i], job.filterValues.colorIdx, job.filterValues.endTime))
        => sorted[1] = SelectSeq(job.layer,
                                 LAMBDA f : ~KeyBelow(f, job.filterValues.colorIdx,
                                                      job.filterValues.startTime))

\* C25: lineSegmentIntersectsLineSegment answers true exactly when the two
\* segments have a point in common, touching ends and collinear overlaps
\* included, and answers the same when the two segments are swapped.
C25_SegmentTestExactAndSymmetric ==
    geo.called =>
        /\ geo.hit <=> SegmentsMeet(geo.a0, geo.a1, geo.b0, geo.b1)
        /\ geo.hit <=> geo.swapped

\* C26: whatever the outcomes of the glyph and icon responses and the order
\* in which they arrive, a parse invokes its callback at most once.
C26_CallbackAtMostOnce ==
    \A p \in 1..Len(parses) : Len(parses[p].calls) <= 1

\* C27: whenever redoPlacement runs a placement pass, every bucket it
\* places (the buckets of tile.symbolBuckets) was tessellated by
\* populateBuffers before, also when parse was called again on the tile
\* while an earlier call waited for its responses.
C27_PlacedBucketsAreTessellated ==
    \A e \in Range(last.log.placed) : Contains(parses[e[1]].tess, e[2])

\* C29: translate moves every point of the query polygon by one and the
\* same vector, the translate vector times pixelsToTileUnits (towards or
\* against it), whatever the scale and the number of points, and returns
\* the polygon as it is for the translate vector [0, 0].
C29_TranslateIsRigid ==
    geo.called =>
        /\ Len(geo.translated) = Len(geo.queryGeometry)
        /\ \E s \in {0 - 1, 1} : \A i \in 1..Len(geo.queryGeometry) :
              /\ geo.translated[i][1] = geo.queryGeometry[i][1]
                                            + s * geo.translate[1] * geo.pixelsToTileUnits
              /\ geo.translated[i][2] = geo.queryGeometry[i][2]
                                            + s * geo.translate[2] * geo.pixelsToTileUnits
        /\ geo.translate = <<0, 0>> => geo.translated = geo.queryGeometry

\* C28: a feature of a bucket that fuses several style layers is reported
\* under a layer exactly when it is reported under that layer as the only
\* layer of the bucket: the outcome for a layer rests on the feature's own
\* geometry and the layer's own paint values, not on the other layers
\* fused with it nor on their order.
C28_LayerOutcomeIndependent ==
    geo.called => geo.together = geo.alone

\* the transferables of a result are the buffers of the buckets serialized
\* in it, each buffer once
ExactTransferables(r) ==
    /\ Range(r.transferables) =
           {<<r.buckets[i].id, name>> : i \in 1..Len(r.buckets), name \in Range(BufferNames)}
    /\ \A i \in 1..Len(r.transferables), j \in 1..Len(r.transferables) :
           r.transferables[i] = r.transferables[j] => i = j

\* C30: the transferables delivered with the result of a parse or of a
\* redoPlacement are exactly the buffers of the buckets serialized in that
\* result: none of a bucket left out of the result, and each buffer of a
\* bucket in the result once.
C30_TransferablesMatchResult ==
    /\ \A i \in 1..Len(last.log.calls) :
           last.log.calls[i].kind = "result" => ExactTransferables(last.log.calls[i])
    /\ (last.op = "redoPlacement" /\ last.ret.kind = "result") => ExactTransferables(last.ret)

====
